---- MODULE Spec2Model ----
(***************************************************************************)
(* Hardcover Sync (calibre plugin): the matcher is_book_already_owned, the *)
(* remote client HardcoverAPI and the reconciliation run SyncJob.run of    *)
(* src/__init__.py.                                                        *)
(*                                                                         *)
(* Python strings are sequences of one-character strings, so that lower(), *)
(* strip(), replace() and the substring test `in` are computed.  A Python  *)
(* list is a sequence, a Python set a set, a dict that is iterated is a    *)
(* sequence of its values in insertion order.  The optional isbn of a book *)
(* is the empty string when absent: the code only ever tests its           *)
(* truthiness, which None and '' share.  An optional result (Optional[str])*)
(* is a sequence of length at most one.                                    *)
(***************************************************************************)
EXTENDS Integers, Sequences, FiniteSets, TLC

VARIABLES
    \* ---- matcher harness: one call of is_book_already_owned
    m_title, m_authors, m_isbn, m_owned, m_called, m_result,
    \* ---- one HardcoverAPI instance and the wall clock (tenths of a second)
    now,                \* time.time()
    last_request,       \* self._last_request
    rate_limit_delay,   \* self._rate_limit_delay
    issued,             \* history: when each request was sent, and whether it failed
    \* ---- the remote service
    remote_books, remote_owned,
    \* ---- one SyncJob (self.*) and the locals of SyncJob.run
    book_ids, results, status_message, percent,
    phase,              \* Idle, FetchingSnapshot, Comparing, Processing, Done, Failed
    owned_books, books_to_process,
    cmp_i, proc_j,      \* 1-based positions of the compare / processing loops
    pc,                 \* where the processing of books_to_process[j] stands
    cur_title,          \* the local `title`
    hardcover_book_id,
    run_no,             \* 1: the first run, 2: the run started after it
    \* ---- history
    fetched,            \* the snapshot as STEP 1 left it
    read_failed,        \* the book ids whose get_metadata raised in this run
    counted,            \* per book id: the counters incremented for it, in order
    req_log,            \* the requests of this run, in order
    prev_added,         \* the book ids counted in added_to_owned by run 1
    \* ---- the SyncDialog
    dialog,             \* asking, syncing, closed
    cancel_pressed,     \* Cancel was pressed (QDialog.reject)
    timer,              \* a call of check_progress is pending
    bar, label,         \* self.progress value, self.status_label text
    message,            \* the text of the final QMessageBox, once shown
    reads,              \* history: the job fields the dialog read, and whether
                        \* the job thread was running at the time
    \* ---- the preference and a pair of runs that differ in it
    sync_owned_only,    \* prefs['sync_owned_only']
    outcomes,           \* what the requests and metadata reads of the first run
                        \* of a pair met, in order; the second run meets the same
    first               \* the service as the pair found it, and what the first
                        \* run of the pair left

mvars == <<m_title, m_authors, m_isbn, m_owned, m_called, m_result>>
cvars == <<now, last_request, rate_limit_delay, issued>>
svars == <<remote_books, remote_owned>>
jvars == <<book_ids, results, status_message, percent, phase, owned_books,
           books_to_process, cmp_i, proc_j, pc, cur_title, hardcover_book_id,
           run_no>>
hvars == <<fetched, read_failed, counted, req_log, prev_added>>
rvars == <<svars, jvars, hvars>>
dvars == <<dialog, cancel_pressed, timer, bar, label, message, reads>>
pvars == <<sync_owned_only, outcomes, first>>
vars == <<mvars, cvars, rvars, dvars, pvars>>

(***************************************************************************)
(* Strings                                                                 *)
(***************************************************************************)
\* str.lower() on the characters the model uses
LowerChar(c) ==
    CASE c = "D" -> "d"
      [] c = "M" -> "m"
      [] c = "H" -> "h"
      [] c = "J" -> "j"
      [] c = "K" -> "k"
      [] c = "X" -> "x"
      [] OTHER -> c

Lower(s) == [i \in 1..Len(s) |-> LowerChar(s[i])]

\* str.strip(): leading and trailing whitespace removed
RECURSIVE LStrip(_)
LStrip(s) == IF s # <<>> /\ Head(s) = " " THEN LStrip(Tail(s)) ELSE s

RECURSIVE RStrip(_)
RStrip(s) ==
    IF s # <<>> /\ s[Len(s)] = " " THEN RStrip(SubSeq(s, 1, Len(s) - 1)) ELSE s

Strip(s) == RStrip(LStrip(s))

\* needle in hay (Python substring test; '' is in every string)
Contains(hay, needle) ==
    \E i \in 1..(Len(hay) - Len(needle) + 1) :
        SubSeq(hay, i, i + Len(needle) - 1) = needle

\* s.replace(c, '')
RemoveChar(s, c) == SelectSeq(s, LAMBDA x : x # c)

\* isbn.replace('-', '').replace(' ', '')
CleanIsbn(isbn) == RemoveChar(RemoveChar(isbn, "-"), " ")

\* title.lower().strip()
CleanTitle(title) == Strip(Lower(title))

\* [a.lower().strip() for a in authors]
CleanAuthors(authors) == [i \in 1..Len(authors) |-> Strip(Lower(authors[i]))]

NoneValue == <<>>
Some(x) == <<x>>

(***************************************************************************)
(* HardcoverAPI.is_book_already_owned                                      *)
(***************************************************************************)
\* a faulty variant of TitleMatches: the containment test dropped
TitleMatchesAnyNonEmpty(clean_title, entry_title) ==
    entry_title # <<>> /\ clean_title # <<>>

\* lines 297-301: both titles non-empty, and equal or one contains the other
TitleMatches(clean_title, entry_title) ==
    /\ entry_title # <<>> /\ clean_title # <<>>
    /\ \/ clean_title = entry_title
       \/ Contains(entry_title, clean_title)
       \/ Contains(clean_title, entry_title)

\* a faulty variant of AuthorsOverlap: equality instead of containment
AuthorsOverlapExact(authors, entry_authors) ==
    \E i \in 1..Len(authors) : \E j \in 1..Len(entry_authors) :
        CleanAuthors(authors)[i] = CleanAuthors(entry_authors)[j]

\* lines 306-312: some pair of cleaned names with one containing the other
AuthorsOverlap(authors, entry_authors) ==
    \E i \in 1..Len(authors) : \E j \in 1..Len(entry_authors) :
        LET ca == CleanAuthors(authors)[i]
            ha == CleanAuthors(entry_authors)[j]
        IN  Contains(ha, ca) \/ Contains(ca, ha)

\* lines 292-294: the entry's isbn test
IsbnHit(clean_isbn, book_info) ==
    /\ clean_isbn # <<>> /\ book_info.isbns # {}
    /\ clean_isbn \in book_info.isbns

\* lines 296-315: the entry's title / author test
TitleHit(clean_title, authors, book_info) ==
    /\ TitleMatches(clean_title, book_info.title)
    /\ IF authors # <<>> /\ book_info.authors # <<>>
       THEN AuthorsOverlap(authors, book_info.authors)
       ELSE TRUE

\* lines 290-317: the loop over owned_books.items(), first hit returns
RECURSIVE OwnedLoop(_, _, _, _)
OwnedLoop(clean_title, authors, clean_isbn, items) ==
    IF items = <<>> THEN NoneValue
    ELSE LET book_info == Head(items)
         IN  IF IsbnHit(clean_isbn, book_info) THEN Some(book_info.id)
             ELSE IF TitleHit(clean_title, authors, book_info)
                  THEN Some(book_info.id)
                  ELSE OwnedLoop(clean_title, authors, clean_isbn, Tail(items))

is_book_already_owned(title, authors, isbn, owned) ==
    OwnedLoop(CleanTitle(title), authors,
              IF isbn # <<>> THEN CleanIsbn(isbn) ELSE <<>>,
              owned)

(***************************************************************************)
(* The matcher on its own: every snapshot of at most MaxEntries entries    *)
(* and every book over the input sets below.                               *)
(***************************************************************************)
MaxEntries == 2

\* titles as stored in a snapshot entry: already lower().strip() (lines 274, 556)
EntryTitles == { <<>>, <<"d">>, <<"d", "m">> }
EntryAuthors == { <<>>, << <<"F", "h">> >>, << <<"j">> >> }
\* fetched isbns are the service's; a synthesized entry holds the raw local isbn
EntryIsbns == { {}, { <<"1", "2">> }, { <<"3">>, <<"1", "-", "2">> } }

BookTitles == { <<" ", "D">>, <<"D", "m">>, <<"x">>, <<" ">> }
BookAuthors == { <<>>, << <<"h", " ">> >>, << <<"k">>, <<"J">> >> }
BookIsbns == { <<>>, <<"1", "-", "2">>, <<"3">>, <<"-">> }

\* the key of the n-th entry: str(book id)
KeyOf(n) == ToString(n)

Snapshots ==
    UNION { { [i \in 1..n |-> [id |-> KeyOf(i), title |-> f[i][1],
                               authors |-> f[i][2], isbns |-> f[i][3]]] :
              f \in [1..n -> EntryTitles \X EntryAuthors \X EntryIsbns] } :
            n \in 0..MaxEntries }

Match ==
    /\ ~m_called
    /\ m_called' = TRUE
    /\ m_result' = is_book_already_owned(m_title, m_authors, m_isbn, m_owned)
    /\ UNCHANGED <<m_title, m_authors, m_isbn, m_owned>>
    /\ UNCHANGED <<cvars, rvars, dvars, pvars>>

(***************************************************************************)
(* HardcoverAPI.run_query: the transport outcome of one request, and what  *)
(* run_query makes of it.  A transport outcome is                          *)
(*   [kind |-> "http", code |-> c]   urllib.error.HTTPError                *)
(*   [kind |-> "url"]                urllib.error.URLError                 *)
(*   [kind |-> "json"]               json.JSONDecodeError                  *)
(*   [kind |-> "other"]              any other exception raised by urlopen *)
(*                                   (socket timeout, connection reset)    *)
(*   [kind |-> "read"]               any other exception raised while the  *)
(*                                   response is read, inside the `with`   *)
(*   [kind |-> "ok", body |-> b]     a parsed JSON object b                *)
(* A call returns [raised |-> FALSE, value |-> v] or raises                *)
(* [raised |-> TRUE, msg |-> m].                                           *)
(***************************************************************************)
Return(v) == [raised |-> FALSE, value |-> v]
Raise(m) == [raised |-> TRUE, msg |-> m]

\* dict.get(key, default)
DictGet(d, key, default) == IF key \in DOMAIN d THEN d[key] ELSE default

\* lines 80-86
HttpErrorMessage(code) ==
    CASE code = 401 -> "HTTP 401 - Invalid API token"
      [] code = 429 -> "HTTP 429 - Rate limit exceeded"
      [] OTHER -> "HTTP " \o ToString(code)

\* lines 74-105 (the part after the request was sent)
run_query(resp) ==
    CASE resp.kind = "http" -> Raise(HttpErrorMessage(resp.code))
      [] resp.kind = "url" -> Raise("Network error")
      [] resp.kind = "json" -> Raise("Invalid JSON response")
      [] resp.kind \in {"other", "read"} -> Raise("Request failed")
      [] resp.kind = "ok" ->
            IF "errors" \in DOMAIN resp.body
            THEN Raise("GraphQL error")
            ELSE Return(DictGet(resp.body, "data", <<>>))

\* every way a request can fail
FailedResponses ==
    { [kind |-> "http", code |-> c] : c \in {401, 429, 500} }
    \cup { [kind |-> "url"], [kind |-> "json"], [kind |-> "other"], [kind |-> "read"],
           [kind |-> "ok", body |-> [errors |-> << [message |-> "denied"] >>]] }

(***************************************************************************)
(* HardcoverAPI._throttle and the clock.  Times are in tenths of a second. *)
(***************************************************************************)
Seconds(n) == n * 10

\* line 54
requests_per_minute == 60
\* line 40: prefs.defaults['rate_limit_delay'] = 1.1
DefaultRateLimitDelay == 11

\* line 59: min_delay = 60.0 / self._requests_per_minute
min_delay == Seconds(60) \div requests_per_minute

\* lines 58-61: how long _throttle sleeps when called at time t
ThrottleSleep(t, last) ==
    LET elapsed == t - last
    IN  IF elapsed < min_delay THEN min_delay - elapsed ELSE 0

MaxCalls == 3
MaxIdle == 12
MaxLatency == 1
MaxOversleep == 1

\* the caller does something else for a tenth of a second
Tick ==
    /\ issued # <<>> /\ Len(issued) < MaxCalls
    /\ now - issued[Len(issued)].sent < MaxIdle
    /\ now' = now + 1
    /\ UNCHANGED <<last_request, rate_limit_delay, issued>>
    /\ UNCHANGED <<mvars, rvars, dvars, pvars>>

\* lines 63-95: one request through run_query.  _throttle sleeps (time.sleep
\* may oversleep), the request is sent, its outcome arrives `latency` later;
\* _last_request is set inside the `with` block, which only a response
\* without HTTP error enters.
ApiRequest(resp, latency, oversleep) ==
    /\ Len(issued) < MaxCalls
    /\ LET sleep == ThrottleSleep(now, last_request)
           sent == now + sleep + (IF sleep > 0 THEN oversleep ELSE 0)
           back == sent + latency
       IN  /\ issued' = Append(issued, [sent |-> sent,
                                        failed |-> run_query(resp).raised])
           /\ now' = back
           /\ last_request' =
                 IF resp.kind \in {"ok", "json", "read"} THEN back ELSE last_request
    /\ UNCHANGED rate_limit_delay
    /\ UNCHANGED <<mvars, rvars, dvars, pvars>>

Request ==
    \E resp \in FailedResponses \cup {[kind |-> "ok", body |-> [data |-> <<>>]]} :
        \E latency \in 0..MaxLatency : \E oversleep \in 0..MaxOversleep :
            ApiRequest(resp, latency, oversleep)

(***************************************************************************)
(* The remote service, as far as the queries of HardcoverAPI see it.       *)
(* remote_books[n] is the book with id n; remote_owned holds the ids of    *)
(* the user's user_books rows with owned = true.  A JSON value that may be *)
(* null is a sequence of length at most one.                               *)
(***************************************************************************)
\* the JSON of a book: id, title, contributions { author { name } },
\* editions { isbn_10 isbn_13 }
BookJson(books, n) ==
    [id |-> Some(n),
     title |-> books[n].title,
     contributions |->
        [a \in 1..Len(books[n].authors) |-> [author |-> [name |-> books[n].authors[a]]]],
     editions |-> books[n].editions]

RECURSIVE Ascending(_)
Ascending(S) ==
    IF S = {} THEN <<>>
    ELSE LET lo == CHOOSE x \in S : \A y \in S : x <= y
         IN  <<lo>> \o Ascending(S \ {lo})

Reverse(q) == [n \in 1..Len(q) |-> q[Len(q) + 1 - n]]

\* the queries give no order_by: the rows come in either order of the ids
RowOrders(S) == { Ascending(S), Reverse(Ascending(S)) }

\* limit: n
Limit(q, n) == SubSeq(q, 1, IF Len(q) < n THEN Len(q) ELSE n)

\* title: {_ilike: "%title%"} (lines 142, 165)
ILike(text, title) == Contains(Lower(text), Lower(title))

\* lines 142 and 183
TitleSearchLimit == 10
IsbnSearchLimit == 5

OkBody(d) == [kind |-> "ok", body |-> [data |-> d]]

\* query GetOwnedBooksWithTitles (lines 227-245)
OwnedResponses(books, owned) ==
    { OkBody([user_books |->
                [r \in 1..Len(ord) |-> [book_id |-> ord[r],
                                        book |-> BookJson(books, ord[r])]]]) :
      ord \in RowOrders(owned) }

\* query SearchBooksByTitle (lines 141-161)
TitleSearchResponses(books, title) ==
    { OkBody([books |-> [r \in 1..Len(ord) |-> BookJson(books, ord[r])]]) :
      ord \in { Limit(o, TitleSearchLimit) :
                o \in RowOrders({ n \in 1..Len(books) : ILike(books[n].title, title) }) } }

\* the editions of the books, as <<book, edition>> index pairs, that the
\* where clause of SearchBooksByISBN selects (lines 178-183); a null variable
\* selects nothing
IsbnSearchHits(books, isbn_10, isbn_13) ==
    { n \in 1..Len(books) :
        \E e \in 1..Len(books[n].editions) :
            \/ isbn_10 # NoneValue /\ books[n].editions[e].isbn_10 = isbn_10
            \/ isbn_13 # NoneValue /\ books[n].editions[e].isbn_13 = isbn_13 }

\* query SearchBooksByISBN (lines 177-200): one row per book here, each
\* book of the model having at most one edition
IsbnSearchResponses(books, isbn_10, isbn_13) ==
    { OkBody([editions |->
                [r \in 1..Len(ord) |->
                    [isbn_10 |-> books[ord[r]].editions[1].isbn_10,
                     isbn_13 |-> books[ord[r]].editions[1].isbn_13,
                     book |-> Some(BookJson(books, ord[r]))]]]) :
      ord \in { Limit(o, IsbnSearchLimit) :
                o \in RowOrders(IsbnSearchHits(books, isbn_10, isbn_13)) } }

\* a search answer whose only row carries no usable id (JSON null)
BrokenRowResponse ==
    OkBody([books |-> << [id |-> NoneValue, title |-> <<"?">>,
                         contributions |-> <<>>, editions |-> <<>>] >>])

(***************************************************************************)
(* HardcoverAPI: what each method returns for a transport outcome          *)
(***************************************************************************)
\* str(x) of a JSON id: str(None) is 'None'
PyStr(id) == IF id = NoneValue THEN "None" ELSE ToString(id[1])

\* a faulty variant of search_books_by_title: the error is let through
search_books_by_title_raising(title, resp) ==
    LET r == run_query(resp)
    IN  IF r.raised THEN r ELSE Return(DictGet(r.value, "books", <<>>))

\* lines 138-172
search_books_by_title(title, resp) ==
    LET r == run_query(resp)
    IN  IF r.raised THEN Return(<<>>)
        ELSE Return(DictGet(r.value, "books", <<>>))

\* lines 204-208: the variables of the isbn search
IsbnVariables(isbn) ==
    LET clean_isbn == CleanIsbn(isbn)
    IN  [isbn10 |-> IF Len(clean_isbn) = 10 THEN clean_isbn ELSE NoneValue,
         isbn13 |-> IF Len(clean_isbn) = 13 THEN clean_isbn ELSE NoneValue]

\* lines 174-222
search_books_by_isbn(isbn, resp) ==
    LET r == run_query(resp)
    IN  IF r.raised THEN Return(<<>>)
        ELSE LET editions == DictGet(r.value, "editions", <<>>)
                 kept == SelectSeq(editions,
                            LAMBDA ed : DictGet(ed, "book", NoneValue) # NoneValue)
             IN  Return([n \in 1..Len(kept) |-> kept[n].book[1]])

\* a faulty variant of DictSet: the value is added whatever the keys held
DictSetAppends(items, key, value) == Append(items, value)

\* dict[key] = value on a dict kept in insertion order
DictSet(items, key, value) ==
    IF \E n \in 1..Len(items) : items[n].id = key
    THEN [n \in 1..Len(items) |-> IF items[n].id = key THEN value ELSE items[n]]
    ELSE Append(items, value)

\* lines 258-264: the truthy isbn_10 / isbn_13 of the editions
EditionIsbns(editions) ==
    { editions[e].isbn_10 : e \in { x \in 1..Len(editions) : editions[x].isbn_10 # <<>> } }
    \cup
    { editions[e].isbn_13 : e \in { x \in 1..Len(editions) : editions[x].isbn_13 # <<>> } }

\* lines 266-270: the truthy author names of the contributions
ContributionAuthors(contributions) ==
    LET named == SelectSeq(contributions, LAMBDA c : c.author.name # <<>>)
    IN  [n \in 1..Len(named) |-> named[n].author.name]

\* lines 253-278: the loop over user_books; `slug` is never read and is left out
RECURSIVE OwnedFromRows(_, _)
OwnedFromRows(rows, owned) ==
    IF rows = <<>> THEN owned
    ELSE LET book_data == Head(rows).book
             book_id == PyStr(book_data.id)
             entry == [id |-> book_id,
                       title |-> CleanTitle(book_data.title),
                       authors |-> ContributionAuthors(book_data.contributions),
                       isbns |-> EditionIsbns(book_data.editions)]
         IN  OwnedFromRows(Tail(rows),
                           IF book_id # "" THEN DictSet(owned, book_id, entry)
                           ELSE owned)

\* lines 224-283
get_owned_books_with_titles(resp) ==
    LET r == run_query(resp)
    IN  IF r.raised THEN Return(<<>>)
        ELSE Return(OwnedFromRows(DictGet(r.value, "user_books", <<>>), <<>>))

\* int(s): the ids the model can hold are 1..n
ParseInt(s, n) ==
    IF \E x \in 0..n : ToString(x) = s
    THEN Some(CHOOSE x \in 0..n : ToString(x) = s)
    ELSE NoneValue

\* lines 319-345; int(book_id) at line 338 is outside the try
add_book_to_owned(book_id, resp, n) ==
    IF ParseInt(book_id, n) = NoneValue THEN Raise("ValueError")
    ELSE LET r == run_query(resp)
         IN  IF r.raised THEN Return(FALSE)
             ELSE Return(DictGet(r.value, "insert_user_books_one", NoneValue)
                            # NoneValue)

\* lines 393-403: the isbn variables of the creation
CreateIsbnVariables(isbn) ==
    LET clean_isbn == CleanIsbn(isbn)
    IN  [isbn_10 |-> IF isbn # <<>> /\ Len(clean_isbn) = 10 THEN clean_isbn
                     ELSE NoneValue,
         isbn_13 |-> IF isbn # <<>> /\ Len(clean_isbn) = 13 THEN clean_isbn
                     ELSE NoneValue]

\* a faulty variant of create_book_on_hardcover: the error is let through
create_book_on_hardcover_raising(title, authors, metadata, resp) ==
    LET r == run_query(resp)
    IN  IF r.raised THEN r
        ELSE LET created_book == DictGet(r.value, "insert_books_one", NoneValue)
             IN  IF created_book # NoneValue /\ "id" \in DOMAIN created_book[1]
                 THEN Return(Some(PyStr(created_book[1].id)))
                 ELSE Return(NoneValue)

\* lines 347-424; the handler of lines 421-422 also catches the KeyError of
\* created_book['id'] on a created book without id
create_book_on_hardcover(title, authors, metadata, resp) ==
    LET r == run_query(resp)
    IN  IF r.raised THEN Return(NoneValue)
        ELSE LET created_book == DictGet(r.value, "insert_books_one", NoneValue)
             IN  IF created_book # NoneValue /\ "id" \in DOMAIN created_book[1]
                 THEN Return(Some(PyStr(created_book[1].id)))
                 ELSE Return(NoneValue)

(***************************************************************************)
(* The calibre library and the service's catalogue at the start            *)
(***************************************************************************)
Isbn10Raw == <<"0", "-", "4", "4", "1", "0", "1", "3", "5", "9", "3">>
Isbn10 == <<"0", "4", "4", "1", "0", "1", "3", "5", "9", "3">>

\* db.get_metadata(book_id): title, authors, identifiers['isbn']
Library ==
    [b \in 1..3 |->
        CASE b = 1 -> [title |-> <<"D">>, authors |-> << <<"K">> >>, isbn |-> Isbn10Raw]
          [] b = 2 -> [title |-> <<"D">>, authors |-> << <<"K">> >>, isbn |-> <<>>]
          [] b = 3 -> [title |-> <<"x">>, authors |-> << <<"K">> >>, isbn |-> <<>>]]

InitialRemoteBooks ==
    << [title |-> <<"D">>, authors |-> << <<"F", " ", "H">> >>,
        editions |-> << [isbn_10 |-> Isbn10, isbn_13 |-> <<>>] >>],
       [title |-> <<"D", " ", "M">>, authors |-> << <<"k">> >>,
        editions |-> <<>>] >>

MaxBooks == 2

\* the lists of distinct book ids sync_library can hand to a job (never empty:
\* lines 885-887)
BookIdLists ==
    UNION { { q \in [1..n -> DOMAIN Library] :
                \A a, b \in 1..n : a # b => q[a] # q[b] } : n \in 1..MaxBooks }

\* lines 435-442
NewResults ==
    [added_to_owned |-> 0, skipped_already_owned |-> 0, created_new_books |-> 0,
     existing_owned_count |-> 0, errors |-> 0, error_details |-> <<>>]

(***************************************************************************)
(* SyncJob.run                                                             *)
(***************************************************************************)
\* a faulty variant of CountError: the failure is counted without its detail
CountErrorNoDetail(res, detail) == [res EXCEPT !.errors = @ + 1]

\* a faulty variant of CountError: the failure is not counted
CountErrorForgotten(res, detail) == res

\* self.results['errors'] += 1; self.results['error_details'].append(detail)
CountError(res, detail) ==
    [res EXCEPT !.errors = @ + 1, !.error_details = Append(@, detail)]

\* a faulty variant of AfterReadFailure: break instead of continue
AfterReadFailureBreak(idx, total) == total + 1

\* line 474: continue with the next book id
AfterReadFailure(idx, total) == idx + 1

\* a faulty variant of ProcessingHandler: the error is raised again
ProcessingHandlerReraise(msg) == "raise"

\* lines 565-568: the handler of the processing loop ends in `continue`
ProcessingHandler(msg) == "continue"

\* line 465: int((i / total_books) * 20), i counting from 0
CompareProgress(i, total_books) == (i * 20) \div total_books

\* a faulty variant of ProcessProgress: the 20 of the compare phase is left out
ProcessProgressNoOffset(i, queued) == (i * 80) \div queued

\* line 510: 20 + int((i / len(books_to_process)) * 80), i counting from 0
ProcessProgress(i, queued) == 20 + (i * 80) \div queued

\* a faulty variant of FirstStep: with sync_owned_only set, the isbn search is
\* left out
FirstStepOwnedOnly(isbn) ==
    IF sync_owned_only THEN "search_title"
    ELSE IF isbn # <<>> THEN "search_isbn" ELSE "search_title"

\* line 520: the isbn search is made only for a truthy isbn
FirstStep(isbn) == IF isbn # <<>> THEN "search_isbn" ELSE "search_title"

\* a faulty variant of AfterSearch: the rows found are not looked at
AfterSearchIgnoresRows(rows, otherwise) == otherwise

\* lines 523 and 528-532: with rows the first one is taken and the book is
\* marked, without rows the next step is tried
AfterSearch(rows, otherwise) == IF rows # <<>> THEN "mark" ELSE otherwise

\* a faulty variant of QueueAfterMatch: the matched book is queued as well
QueueAfterMatchEnqueues(queue, info) == Append(queue, info)

\* lines 487-489: `continue`, the matched book does not reach line 492
QueueAfterMatch(queue, info) == queue

\* a faulty variant of CountNotCreated: the book is counted as created too
CountNotCreatedAsCreated(res, book_title) ==
    [CountError(res, <<"Failed to create book: ", book_title>>)
        EXCEPT !.created_new_books = @ + 1]

\* lines 538-540: create_book_on_hardcover returned no id
CountNotCreated(res, book_title) ==
    CountError(res, <<"Failed to create book: ", book_title>>)

\* a faulty variant of ResolvedId: the last row found is taken
ResolvedIdOfLastRow(rows) == Some(PyStr(rows[Len(rows)].id))

\* lines 530-531: str(search_results[0]['id'])
ResolvedId(rows) == Some(PyStr(rows[1].id))

\* what can go wrong with a request or a metadata read.  The second run is
\* there to be compared with the first: it runs undisturbed.
Failures == IF run_no = 1 THEN FailedResponses ELSE {}
Readable == IF run_no = 1 THEN BOOLEAN ELSE {TRUE}

Mark(b, what) == [counted EXCEPT ![b] = Append(@, what)]
\* the id of the created book a response carries, if it carries one
CarriedId(resp) ==
    IF resp.kind = "ok" /\ "data" \in DOMAIN resp.body
       /\ "insert_books_one" \in DOMAIN resp.body.data
       /\ resp.body.data.insert_books_one # NoneValue
       /\ "id" \in DOMAIN resp.body.data.insert_books_one[1]
    THEN resp.body.data.insert_books_one[1].id
    ELSE NoneValue
Logged(op, b, resp, ret) ==
    Append(req_log, [op |-> op, book |-> b, failed |-> run_query(resp).raised,
                     carried |-> CarriedId(resp), ret |-> ret])

\* line 449, before the first request
StartRun ==
    /\ phase = "Idle"
    /\ phase' = "FetchingSnapshot"
    /\ status_message' = "Fetching your current Hardcover library..."
    /\ UNCHANGED <<book_ids, results, percent, owned_books, books_to_process, cmp_i, proc_j,
                   pc, cur_title, hardcover_book_id, run_no>>
    /\ UNCHANGED <<svars, hvars, mvars, cvars, dvars, pvars>>

\* lines 450-461: STEP 1.  The handler of lines 453-455 records what
\* get_owned_books_with_titles raises; the method itself returns {} on every
\* failure (lines 282-283).
FetchOwned(resp) ==
    /\ phase = "FetchingSnapshot"
    /\ LET got == get_owned_books_with_titles(resp)
           snapshot == IF got.raised THEN <<>> ELSE got.value
       IN  /\ owned_books' = snapshot
           /\ fetched' = snapshot
           /\ results' =
                 IF got.raised
                 THEN [results EXCEPT !.error_details =
                          Append(@, <<"Failed to get owned books: ", got.msg>>)]
                 ELSE [results EXCEPT !.existing_owned_count = Len(got.value)]
           /\ req_log' = Logged("fetch", 0, resp,
                                [n \in 1..Len(snapshot) |-> snapshot[n].id])
    /\ books_to_process' = <<>>
    /\ status_message' = "Comparing with your Calibre library..."
    /\ phase' = "Comparing"
    /\ cmp_i' = 1
    /\ UNCHANGED <<book_ids, percent, proc_j, pc, cur_title, hardcover_book_id, run_no>>
    /\ UNCHANGED <<svars, read_failed, counted, prev_added, mvars, cvars, dvars>>

FetchOwnedStep ==
    /\ UNCHANGED pvars
    /\ \E resp \in Failures \cup OwnedResponses(remote_books, remote_owned) :
          FetchOwned(resp)

\* lines 462-503: one iteration of the compare loop
CompareBook(readable) ==
    /\ phase = "Comparing" /\ cmp_i <= Len(book_ids)
    /\ percent' = CompareProgress(cmp_i - 1, Len(book_ids))
    /\ LET book_id == book_ids[cmp_i]
           metadata == Library[book_id]
       IN  IF ~readable
           THEN /\ results' = CountError(results, <<"Failed to read book ", book_id>>)
                /\ counted' = Mark(book_id, "errors")
                /\ read_failed' = read_failed \cup {book_id}
                /\ cmp_i' = AfterReadFailure(cmp_i, Len(book_ids))
                /\ UNCHANGED <<books_to_process, cur_title>>
           ELSE /\ cur_title' = (IF metadata.title # <<>> THEN metadata.title
                             ELSE <<"Unknown Title">>)
                /\ cmp_i' = cmp_i + 1
                /\ UNCHANGED read_failed
                /\ IF is_book_already_owned(cur_title', metadata.authors, metadata.isbn,
                                            owned_books) # NoneValue
                   THEN /\ results' = [results EXCEPT !.skipped_already_owned = @ + 1]
                        /\ counted' = Mark(book_id, "skipped")
                        /\ books_to_process' =
                              QueueAfterMatch(books_to_process,
                                              [calibre_id |-> book_id, title |-> cur_title',
                                               authors |-> metadata.authors,
                                               isbn |-> metadata.isbn])
                   ELSE /\ books_to_process' =
                              Append(books_to_process,
                                     [calibre_id |-> book_id, title |-> cur_title',
                                      authors |-> metadata.authors,
                                      isbn |-> metadata.isbn])
                        /\ UNCHANGED <<results, counted>>
    /\ UNCHANGED <<book_ids, status_message, phase, owned_books, proc_j, pc,
                   hardcover_book_id, run_no>>
    /\ UNCHANGED <<svars, fetched, req_log, prev_added, mvars, cvars, dvars>>

CompareStep ==
    /\ UNCHANGED pvars
    /\ \E readable \in Readable : CompareBook(readable)

\* line 506: the compare loop is over
EndCompare ==
    /\ phase = "Comparing" /\ cmp_i > Len(book_ids)
    /\ status_message' = "Processing new books..."
    /\ phase' = "Processing"
    /\ proc_j' = 1
    /\ pc' = "top"
    /\ UNCHANGED <<book_ids, results, percent, owned_books, books_to_process, cmp_i,
                   cur_title, hardcover_book_id, run_no>>
    /\ UNCHANGED <<svars, hvars, mvars, cvars, dvars, pvars>>

\* a faulty variant of Book: the queue is gone through from its end
BookFromTheEnd == books_to_process[Len(books_to_process) + 1 - proc_j]

\* line 507: the book_info of the iteration
Book == books_to_process[proc_j]

\* the ids of the rows a search returned, as the run reads them
RowIds(rows) == [n \in 1..Len(rows) |-> PyStr(rows[n].id)]

\* mutation CreateBook (lines 350-373): the book the service then holds; the
\* mutation sends no author
CreatedBook(book_title, isbn) ==
    [title |-> book_title, authors |-> <<>>,
     editions |-> << [isbn_10 |-> CreateIsbnVariables(isbn).isbn_10,
                      isbn_13 |-> CreateIsbnVariables(isbn).isbn_13] >>]

CreateResponses(books, book_title) ==
    { OkBody([insert_books_one |->
                Some([id |-> Some(Len(books) + 1), title |-> book_title])]) }
\* the insert answers with null, or with an object that has no id
NotCreatedResponses(book_title) ==
    { OkBody([insert_books_one |-> NoneValue]),
      OkBody([insert_books_one |-> Some([title |-> book_title])]) }

\* mutation AddBookToOwned (lines 322-334): the upsert answers with the row,
\* or with null
MarkedResponse(n) ==
    OkBody([insert_user_books_one |-> Some([book_id |-> n, owned |-> TRUE])])
UnmarkedResponse == OkBody([insert_user_books_one |-> NoneValue])

\* lines 565-568, and lines 573-575 should the handler not hold the error:
\* the book is counted as one error and the loop goes on
Caught(msg) ==
    LET one == CountError(results, <<"Error processing ", cur_title, msg>>)
    IN  /\ counted' = Mark(Book.calibre_id, "errors")
        /\ IF ProcessingHandler(msg) = "continue"
           THEN /\ results' = one
                /\ proc_j' = proc_j + 1
                /\ pc' = "top"
                /\ UNCHANGED phase
           ELSE /\ results' = [one EXCEPT !.error_details =
                                   Append(@, <<"Sync job failed: ", msg>>)]
                /\ phase' = "Failed"
                /\ UNCHANGED <<proc_j, pc>>

\* lines 507-516: the top of one iteration of the processing loop
BeginBook ==
    /\ phase = "Processing" /\ pc = "top" /\ proc_j <= Len(books_to_process)
    /\ percent' = ProcessProgress(proc_j - 1, Len(books_to_process))
    /\ cur_title' = Book.title
    /\ pc' = FirstStep(Book.isbn)
    /\ UNCHANGED <<book_ids, results, status_message, phase, owned_books,
                   books_to_process, cmp_i, proc_j, hardcover_book_id, run_no>>
    /\ UNCHANGED <<svars, hvars, mvars, cvars, dvars, pvars>>

\* lines 520-521 (and 528-531 when the search found something)
SearchIsbn(resp) ==
    /\ phase = "Processing" /\ pc = "search_isbn"
    /\ LET got == search_books_by_isbn(Book.isbn, resp)
       IN  /\ req_log' = Logged("search_isbn", Book.calibre_id, resp,
                                IF got.raised THEN <<"raised">> ELSE RowIds(got.value))
           /\ IF got.raised
              THEN Caught(got.msg) /\ UNCHANGED hardcover_book_id
              ELSE /\ pc' = AfterSearch(got.value, "search_title")
                   /\ IF got.value # <<>>
                      THEN hardcover_book_id' = ResolvedId(got.value)
                      ELSE UNCHANGED hardcover_book_id
                   /\ UNCHANGED <<results, counted, proc_j, phase>>
    /\ UNCHANGED <<book_ids, status_message, percent, owned_books,
                   books_to_process, cmp_i, cur_title, run_no>>
    /\ UNCHANGED <<svars, fetched, read_failed, prev_added, mvars, cvars, dvars>>

SearchIsbnStep ==
    /\ UNCHANGED pvars
    /\ phase = "Processing" /\ pc = "search_isbn"
    /\ \E resp \in Failures
                    \cup IsbnSearchResponses(remote_books, IsbnVariables(Book.isbn).isbn10,
                                         IsbnVariables(Book.isbn).isbn13) :
            SearchIsbn(resp)

\* lines 523-531
SearchTitle(resp) ==
    /\ phase = "Processing" /\ pc = "search_title"
    /\ LET got == search_books_by_title(cur_title, resp)
       IN  /\ req_log' = Logged("search_title", Book.calibre_id, resp,
                                IF got.raised THEN <<"raised">> ELSE RowIds(got.value))
           /\ IF got.raised
              THEN Caught(got.msg) /\ UNCHANGED hardcover_book_id
              ELSE /\ pc' = AfterSearch(got.value, "create")
                   /\ IF got.value # <<>>
                      THEN hardcover_book_id' = ResolvedId(got.value)
                      ELSE hardcover_book_id' = NoneValue
                   /\ UNCHANGED <<results, counted, proc_j, phase>>
    /\ UNCHANGED <<book_ids, status_message, percent, owned_books,
                   books_to_process, cmp_i, cur_title, run_no>>
    /\ UNCHANGED <<svars, fetched, read_failed, prev_added, mvars, cvars, dvars>>

SearchTitleStep ==
    /\ UNCHANGED pvars
    /\ phase = "Processing" /\ pc = "search_title"
    /\ \E resp \in Failures \cup (IF run_no = 1 THEN {BrokenRowResponse} ELSE {})
                    \cup TitleSearchResponses(remote_books, cur_title) :
            SearchTitle(resp)

\* lines 532-545; the handler of lines 542-545 counts what
\* create_book_on_hardcover raises
CreateBook(resp) ==
    /\ phase = "Processing" /\ pc = "create"
    /\ LET got == create_book_on_hardcover(cur_title, Book.authors,
                                           Library[Book.calibre_id], resp)
       IN  /\ req_log' = Logged("create", Book.calibre_id, resp,
                                IF got.raised THEN <<"raised">> ELSE got.value)
           /\ IF got.raised
              THEN /\ results' = CountError(results,
                                            <<"Error creating ", cur_title, got.msg>>)
                   /\ counted' = Mark(Book.calibre_id, "errors")
                   /\ proc_j' = proc_j + 1
                   /\ pc' = "top"
                   /\ UNCHANGED hardcover_book_id
              ELSE IF got.value # NoneValue
              THEN /\ hardcover_book_id' = got.value
                   /\ results' = [results EXCEPT !.created_new_books = @ + 1]
                   /\ counted' = Mark(Book.calibre_id, "created")
                   /\ pc' = "mark"
                   /\ UNCHANGED proc_j
              ELSE /\ results' = CountNotCreated(results, cur_title)
                   /\ counted' = Mark(Book.calibre_id, "errors")
                   /\ proc_j' = proc_j + 1
                   /\ pc' = "top"
                   /\ UNCHANGED hardcover_book_id
    /\ remote_books' = IF resp \in CreateResponses(remote_books, cur_title)
                       THEN Append(remote_books, CreatedBook(cur_title, Book.isbn))
                       ELSE remote_books
    /\ UNCHANGED <<book_ids, status_message, percent, phase, owned_books,
                   books_to_process, cmp_i, cur_title, run_no>>
    /\ UNCHANGED <<remote_owned, fetched, read_failed, prev_added, mvars, cvars, dvars>>

CreateStep ==
    /\ UNCHANGED pvars
    /\ phase = "Processing" /\ pc = "create"
    /\ \E resp \in Failures
                    \cup (IF run_no = 1 THEN NotCreatedResponses(cur_title) ELSE {})
                    \cup CreateResponses(remote_books, cur_title) :
            CreateBook(resp)

\* lines 554-560: the entry put into the snapshot after a successful markOwned
SynthesizedEntry(book_id, book) ==
    [id |-> book_id, title |-> CleanTitle(book.title), authors |-> book.authors,
     isbns |-> IF book.isbn # <<>> THEN {book.isbn} ELSE {}]

\* lines 547-563
AddToOwned(resp) ==
    /\ phase = "Processing" /\ pc = "mark"
    /\ hardcover_book_id # NoneValue /\ hardcover_book_id[1] # ""
    /\ LET book_id == hardcover_book_id[1]
           got == add_book_to_owned(book_id, resp, Len(remote_books))
           sent == ~got.raised
           done == sent /\ resp = MarkedResponse(ParseInt(book_id, Len(remote_books))[1])
       IN  /\ req_log' = Logged("mark", Book.calibre_id, resp,
                                IF got.raised THEN <<"raised">>
                                ELSE IF got.value THEN <<"True">> ELSE <<"False">>)
           /\ remote_owned' = IF done
                              THEN remote_owned
                                     \cup {ParseInt(book_id, Len(remote_books))[1]}
                              ELSE remote_owned
           /\ IF got.raised
              THEN Caught(got.msg) /\ UNCHANGED owned_books
              ELSE /\ IF got.value
                      THEN /\ results' = [results EXCEPT !.added_to_owned = @ + 1]
                           /\ counted' = Mark(Book.calibre_id, "added")
                           /\ owned_books' = DictSet(owned_books, book_id,
                                                     SynthesizedEntry(book_id, Book))
                      ELSE /\ results' =
                                 CountError(results,
                                            <<"Failed to add to owned list: ", cur_title>>)
                           /\ counted' = Mark(Book.calibre_id, "errors")
                           /\ UNCHANGED owned_books
                   /\ proc_j' = proc_j + 1
                   /\ pc' = "top"
                   /\ UNCHANGED phase
    /\ UNCHANGED <<book_ids, status_message, percent, books_to_process, cmp_i,
                   cur_title, hardcover_book_id, run_no>>
    /\ UNCHANGED <<remote_books, fetched, read_failed, prev_added, mvars, cvars, dvars>>

\* int(book_id) raising, no request is sent and nothing answers
AddToOwnedStep ==
    /\ UNCHANGED pvars
    /\ phase = "Processing" /\ pc = "mark" /\ hardcover_book_id # NoneValue
    /\ LET n == ParseInt(hardcover_book_id[1], Len(remote_books))
       IN  IF n = NoneValue
           THEN AddToOwned([kind |-> "other"])
           ELSE \E resp \in Failures
                            \cup (IF run_no = 1 THEN {UnmarkedResponse} ELSE {})
                            \cup {MarkedResponse(n[1])} :
                    AddToOwned(resp)

\* lines 570-571
Finish ==
    /\ phase = "Processing" /\ pc = "top" /\ proc_j > Len(books_to_process)
    /\ percent' = 100
    /\ status_message' = "Sync completed!"
    /\ phase' = "Done"
    /\ UNCHANGED <<book_ids, results, owned_books, books_to_process, cmp_i, proc_j,
                   pc, cur_title, hardcover_book_id, run_no>>
    /\ UNCHANGED <<svars, hvars, mvars, cvars, dvars, pvars>>

\* the user syncs the same books again: a new SyncJob (lines 430-443, 775)
\* against the service as the first run left it
NextRun ==
    /\ phase = "Done" /\ run_no = 1
    /\ run_no' = 2
    /\ prev_added' = { b \in DOMAIN counted :
                         \E n \in 1..Len(counted[b]) : counted[b][n] = "added" }
    /\ results' = NewResults
    /\ status_message' = "Starting sync..."
    /\ percent' = 0
    /\ phase' = "Idle"
    /\ owned_books' = <<>> /\ books_to_process' = <<>>
    /\ cmp_i' = 1 /\ proc_j' = 1 /\ pc' = "top"
    /\ cur_title' = <<>> /\ hardcover_book_id' = NoneValue
    /\ fetched' = <<>> /\ read_failed' = {} /\ req_log' = <<>>
    /\ counted' = [b \in DOMAIN Library |-> <<>>]
    /\ UNCHANGED <<book_ids, svars, mvars, cvars, dvars, pvars>>

(***************************************************************************)
(* SyncDialog: start_sync, its check_progress callback, sync_finished and  *)
(* the Cancel button                                                       *)
(***************************************************************************)
\* line 780: self.job and self.job.is_alive(); the thread is alive from
\* start() until run() has returned or raised
JobAliveUntilProcessing(ph) == ph \in {"Idle", "FetchingSnapshot", "Comparing"}

JobAlive(ph) == ph \in {"Idle", "FetchingSnapshot", "Comparing", "Processing"}

\* line 818: error_details[:3]
PreviewLimit == 3

\* a faulty variant of ErrorPreview: every entry is listed
ErrorPreviewAll(error_details) ==
    IF error_details = <<>> THEN <<>>
    ELSE << <<"First few errors:">> >> \o error_details

\* lines 817-820: the lines the summary gives to the errors
ErrorPreview(error_details) ==
    IF error_details = <<>> THEN <<>>
    ELSE << <<"First few errors:">> >>
         \o Limit(error_details, PreviewLimit)
         \o (IF Len(error_details) > PreviewLimit
             THEN << <<"... and ", Len(error_details) - PreviewLimit, " more">> >>
             ELSE <<>>)

\* lines 798-820: the text of the summary, line by line (blank lines left out)
SummaryMessage(res, total_calibre) ==
    << <<"Sync completed!">>,
       <<"Your Calibre Library: ", total_calibre, " books">>,
       <<"Already Owned on Hardcover: ", res.existing_owned_count, " books">>,
       <<"Added to Owned: ", res.added_to_owned>>,
       <<"Skipped (already owned): ", res.skipped_already_owned>>,
       <<"New Books Created: ", res.created_new_books>>,
       <<"Errors: ", res.errors>> >>
    \o ErrorPreview(res.error_details)

\* a faulty variant of JobAfterReject: Cancel ends the job
JobStoppedByReject(ph) == IF JobAlive(ph) THEN "Failed" ELSE ph

\* line 762: Cancel is connected to QDialog.reject, which knows nothing of
\* the job
JobAfterReject(ph) == ph

\* a faulty variant of Rescheduled: every poll starts a timer
RescheduledAlways(alive) == TRUE

\* lines 780-787: a poll starts the timer of the next one (line 785) exactly
\* when it found the job alive
Rescheduled(alive) == alive

\* lines 768-777 and 789: the Sync button.  The job is constructed (lines
\* 430-443) and started; the call of check_progress of line 790 is pending.
StartSync ==
    /\ dialog = "asking" /\ phase = "Unused"
    /\ dialog' = "syncing"
    /\ bar' = 0
    /\ label' = <<"Starting sync...">>
    /\ results' = NewResults
    /\ status_message' = "Starting sync..."
    /\ phase' = "Idle"
    /\ timer' = TRUE
    /\ UNCHANGED <<cancel_pressed, message, reads>>
    /\ UNCHANGED <<book_ids, percent, owned_books, books_to_process, cmp_i, proc_j,
                   pc, cur_title, hardcover_book_id, run_no>>
    /\ UNCHANGED <<svars, hvars, mvars, cvars, pvars>>

\* lines 779-785: check_progress while the job is alive
CheckProgress ==
    /\ timer /\ JobAlive(phase)
    /\ bar' = percent
    /\ label' = <<status_message, percent>>
    /\ reads' = reads \cup { [field |-> f, running |-> phase \notin {"Done", "Failed"}] :
                              f \in {"percent", "status_message"} }
    /\ timer' = Rescheduled(JobAlive(phase))
    /\ UNCHANGED <<dialog, cancel_pressed, message>>
    /\ UNCHANGED <<mvars, cvars, rvars, pvars>>

\* lines 786-787 and 792-823: check_progress once the job is no longer alive
SyncFinished ==
    /\ timer /\ ~JobAlive(phase)
    /\ timer' = Rescheduled(JobAlive(phase))
    /\ bar' = 100
    /\ label' = <<"Sync completed!">>
    /\ message' = Some(SummaryMessage(results, Len(book_ids)))
    /\ reads' = reads \cup { [field |-> "results",
                               running |-> phase \notin {"Done", "Failed"}] }
    /\ dialog' = "closed"
    /\ UNCHANGED cancel_pressed
    /\ UNCHANGED <<mvars, cvars, rvars, pvars>>

\* line 762: the Cancel button, while the dialog is shown
Reject ==
    /\ dialog \in {"asking", "syncing"}
    /\ dialog' = "closed"
    /\ cancel_pressed' = TRUE
    /\ phase' = JobAfterReject(phase)
    /\ UNCHANGED <<timer, bar, label, message, reads>>
    /\ UNCHANGED <<book_ids, results, status_message, percent, owned_books,
                   books_to_process, cmp_i, proc_j, pc, cur_title, hardcover_book_id,
                   run_no>>
    /\ UNCHANGED <<svars, hvars, mvars, cvars, pvars>>

(***************************************************************************)
(* Specifications                                                          *)
(***************************************************************************)
\* the matcher on its own: a book and a snapshot, not yet compared
InitMatcher ==
    /\ m_title \in BookTitles
    /\ m_authors \in BookAuthors
    /\ m_isbn \in BookIsbns
    /\ m_owned \in Snapshots
    /\ m_called = FALSE
    /\ m_result = NoneValue
    /\ now = 0 /\ last_request = 0 /\ rate_limit_delay = DefaultRateLimitDelay
    /\ issued = <<>>
    /\ remote_books = <<>> /\ remote_owned = {}
    /\ book_ids = <<>> /\ results = NewResults
    /\ status_message = "Starting sync..." /\ percent = 0 /\ phase = "Unused"
    /\ owned_books = <<>> /\ books_to_process = <<>>
    /\ cmp_i = 1 /\ proc_j = 1 /\ pc = "top"
    /\ cur_title = <<>> /\ hardcover_book_id = NoneValue /\ run_no = 1
    /\ fetched = <<>> /\ read_failed = {} /\ req_log = <<>>
    /\ counted = [b \in DOMAIN Library |-> <<>>]
    /\ prev_added = {}
    /\ dialog = "asking" /\ cancel_pressed = FALSE /\ timer = FALSE
    /\ bar = 0 /\ label = <<>> /\ message = NoneValue /\ reads = {}
    /\ sync_owned_only = FALSE /\ outcomes = <<>> /\ first = NoneValue

NextMatcher == Match

SpecMatcher == InitMatcher /\ [][NextMatcher]_vars

\* the client on its own, as sync_library constructs it (lines 44-53 and
\* 889-891); the clock is far from the epoch, where _last_request starts (0.0)
InitClient ==
    /\ now = Seconds(3)
    /\ last_request = 0
    /\ rate_limit_delay \in {Seconds(1) \div 2, Seconds(1), DefaultRateLimitDelay,
                             Seconds(2)}
    /\ issued = <<>>
    /\ m_title = <<>> /\ m_authors = <<>> /\ m_isbn = <<>> /\ m_owned = <<>>
    /\ m_called = FALSE /\ m_result = NoneValue
    /\ remote_books = <<>> /\ remote_owned = {}
    /\ book_ids = <<>> /\ results = NewResults
    /\ status_message = "Starting sync..." /\ percent = 0 /\ phase = "Unused"
    /\ owned_books = <<>> /\ books_to_process = <<>>
    /\ cmp_i = 1 /\ proc_j = 1 /\ pc = "top"
    /\ cur_title = <<>> /\ hardcover_book_id = NoneValue /\ run_no = 1
    /\ fetched = <<>> /\ read_failed = {} /\ req_log = <<>>
    /\ counted = [b \in DOMAIN Library |-> <<>>]
    /\ prev_added = {}
    /\ dialog = "asking" /\ cancel_pressed = FALSE /\ timer = FALSE
    /\ bar = 0 /\ label = <<>> /\ message = NoneValue /\ reads = {}
    /\ sync_owned_only = FALSE /\ outcomes = <<>> /\ first = NoneValue

NextClient == Tick \/ Request

SpecClient == InitClient /\ [][NextClient]_vars

\* a SyncJob as start_sync constructs it (lines 430-443), on its list of book
\* ids, and the service with any of its books already owned
Init ==
    /\ book_ids \in BookIdLists
    /\ remote_books = InitialRemoteBooks
    /\ remote_owned \in SUBSET (1..Len(InitialRemoteBooks))
    /\ results = NewResults
    /\ status_message = "Starting sync..." /\ percent = 0 /\ phase = "Idle"
    /\ owned_books = <<>> /\ books_to_process = <<>>
    /\ cmp_i = 1 /\ proc_j = 1 /\ pc = "top"
    /\ cur_title = <<>> /\ hardcover_book_id = NoneValue /\ run_no = 1
    /\ fetched = <<>> /\ read_failed = {} /\ req_log = <<>>
    /\ counted = [b \in DOMAIN Library |-> <<>>]
    /\ prev_added = {}
    /\ m_title = <<>> /\ m_authors = <<>> /\ m_isbn = <<>> /\ m_owned = <<>>
    /\ m_called = FALSE /\ m_result = NoneValue
    /\ now = 0 /\ last_request = 0 /\ rate_limit_delay = DefaultRateLimitDelay
    /\ issued = <<>>
    /\ dialog = "asking" /\ cancel_pressed = FALSE /\ timer = FALSE
    /\ bar = 0 /\ label = <<>> /\ message = NoneValue /\ reads = {}
    /\ sync_owned_only = FALSE /\ outcomes = <<>> /\ first = NoneValue

Next ==
    \/ StartRun
    \/ FetchOwnedStep
    \/ CompareStep
    \/ EndCompare
    \/ BeginBook
    \/ SearchIsbnStep
    \/ SearchTitleStep
    \/ CreateStep
    \/ AddToOwnedStep
    \/ Finish

Spec == Init /\ [][Next]_vars

\* two runs in succession
NextRerun == Next \/ NextRun

SpecRerun == Init /\ [][NextRerun]_vars

\* the job thread runs on: every request returns (the 30 s timeout of line 75)
\* and every sleep ends
FairSpec == Spec /\ WF_vars(Next)

\* the dialog as sync_library shows it (lines 900-901), no job yet; the user
\* owns nothing on the service, or its first book
InitDialog ==
    /\ book_ids \in BookIdLists
    /\ remote_books = InitialRemoteBooks
    /\ remote_owned \in {{}, {1}}
    /\ results = NewResults
    /\ status_message = "Starting sync..." /\ percent = 0 /\ phase = "Unused"
    /\ owned_books = <<>> /\ books_to_process = <<>>
    /\ cmp_i = 1 /\ proc_j = 1 /\ pc = "top"
    /\ cur_title = <<>> /\ hardcover_book_id = NoneValue /\ run_no = 1
    /\ fetched = <<>> /\ read_failed = {} /\ req_log = <<>>
    /\ counted = [b \in DOMAIN Library |-> <<>>]
    /\ prev_added = {}
    /\ m_title = <<>> /\ m_authors = <<>> /\ m_isbn = <<>> /\ m_owned = <<>>
    /\ m_called = FALSE /\ m_result = NoneValue
    /\ now = 0 /\ last_request = 0 /\ rate_limit_delay = DefaultRateLimitDelay
    /\ issued = <<>>
    /\ dialog = "asking" /\ cancel_pressed = FALSE /\ timer = FALSE
    /\ bar = 0 /\ label = <<>> /\ message = NoneValue /\ reads = {}
    /\ sync_owned_only = FALSE /\ outcomes = <<>> /\ first = NoneValue

NextDialog == Next \/ StartSync \/ CheckProgress \/ SyncFinished \/ Reject

SpecDialog == InitDialog /\ [][NextDialog]_vars

\* the job thread runs on; nothing makes the dialog poll or the user press
\* a button
FairDialog == SpecDialog /\ WF_vars(Next)

\* the job thread runs on and every timer started at line 785 fires
FairPolling ==
    SpecDialog /\ WF_vars(Next) /\ WF_vars(CheckProgress) /\ WF_vars(SyncFinished)

\* the number of books of the finished runs whose summary is shown
MaxDetails == 5

\* lines 475-478 and 536-541: the results of a finished run over the books
\* 1..MaxDetails, each of them skipped as owned, unreadable (counted in the
\* compare loop) or not created (counted in the processing loop, later)
FinishedResults(fate) ==
    LET ids == [k \in 1..MaxDetails |-> k]
        unreadable == SelectSeq(ids, LAMBDA b : fate[b] = "unreadable")
        uncreated == SelectSeq(ids, LAMBDA b : fate[b] = "uncreated")
        skipped == SelectSeq(ids, LAMBDA b : fate[b] = "skipped")
        details == [k \in 1..Len(unreadable) |-> <<"Failed to read book ", unreadable[k]>>]
                   \o [k \in 1..Len(uncreated) |->
                          <<"Failed to create book: ", <<ToString(uncreated[k])>> >>]
    IN  [added_to_owned |-> 0,
         skipped_already_owned |-> Len(skipped),
         created_new_books |-> 0,
         existing_owned_count |-> IF Len(skipped) > 0 THEN 1 ELSE 0,
         errors |-> Len(details),
         error_details |-> details]

\* a dialog whose job has just ended, the call of check_progress pending
InitSummary ==
    /\ book_ids = [k \in 1..MaxDetails |-> k]
    /\ remote_books = InitialRemoteBooks
    /\ remote_owned = {1}
    /\ results \in { FinishedResults(fate) :
                        fate \in [1..MaxDetails -> {"skipped", "unreadable", "uncreated"}] }
    /\ status_message = "Sync completed!" /\ percent = 100 /\ phase = "Done"
    /\ owned_books = <<>> /\ books_to_process = <<>>
    /\ cmp_i = 1 /\ proc_j = 1 /\ pc = "top"
    /\ cur_title = <<>> /\ hardcover_book_id = NoneValue /\ run_no = 1
    /\ fetched = <<>> /\ read_failed = {} /\ req_log = <<>>
    /\ counted = [b \in DOMAIN Library |-> <<>>]
    /\ prev_added = {}
    /\ m_title = <<>> /\ m_authors = <<>> /\ m_isbn = <<>> /\ m_owned = <<>>
    /\ m_called = FALSE /\ m_result = NoneValue
    /\ now = 0 /\ last_request = 0 /\ rate_limit_delay = DefaultRateLimitDelay
    /\ issued = <<>>
    /\ dialog = "syncing" /\ cancel_pressed = FALSE /\ timer = TRUE
    /\ bar = 0 /\ label = <<"Starting sync...">> /\ message = NoneValue /\ reads = {}
    /\ sync_owned_only = FALSE /\ outcomes = <<>> /\ first = NoneValue

NextSummary == SyncFinished

SpecSummary == InitSummary /\ [][NextSummary]_vars

(***************************************************************************)
(* A pair of runs on the same books and the same service that meet the     *)
(* same outcomes and differ in prefs['sync_owned_only'] (saved at lines    *)
(* 661, 695 and 950; SyncJob.__init__ and run never read prefs)            *)
(***************************************************************************)
\* the failures the runs of a pair can meet: one before the response (line
\* 80) and one after it (line 91)
PairFailures == { [kind |-> "http", code |-> 500], [kind |-> "json"] }

\* what the step at hand meets: in the first run any member of S, in the
\* second what the first run met at the same place (a refused connection
\* once the first run's outcomes are used up)
Drawn(S, metadata) ==
    IF run_no = 1 THEN S
    ELSE IF outcomes # <<>> /\ (Head(outcomes).kind = "metadata") = metadata
    THEN {Head(outcomes)}
    ELSE IF metadata THEN {[kind |-> "metadata", readable |-> TRUE]}
    ELSE {[kind |-> "url"]}

Meet(x) ==
    /\ outcomes' = IF run_no = 1 THEN Append(outcomes, x)
                   ELSE IF outcomes # <<>> THEN Tail(outcomes) ELSE outcomes
    /\ UNCHANGED <<sync_owned_only, first>>

PairFetch ==
    /\ phase = "FetchingSnapshot"
    /\ \E resp \in Drawn(PairFailures \cup OwnedResponses(remote_books, remote_owned),
                          FALSE) :
          FetchOwned(resp) /\ Meet(resp)

PairCompare ==
    /\ phase = "Comparing" /\ cmp_i <= Len(book_ids)
    /\ \E o \in Drawn({ [kind |-> "metadata", readable |-> r] : r \in BOOLEAN }, TRUE) :
          CompareBook(o.readable) /\ Meet(o)

PairSearchIsbn ==
    /\ phase = "Processing" /\ pc = "search_isbn"
    /\ \E resp \in Drawn(PairFailures
                          \cup IsbnSearchResponses(remote_books,
                                                   IsbnVariables(Book.isbn).isbn10,
                                                   IsbnVariables(Book.isbn).isbn13),
                          FALSE) :
          SearchIsbn(resp) /\ Meet(resp)

PairSearchTitle ==
    /\ phase = "Processing" /\ pc = "search_title"
    /\ \E resp \in Drawn(PairFailures \cup {BrokenRowResponse}
                          \cup TitleSearchResponses(remote_books, cur_title),
                          FALSE) :
          SearchTitle(resp) /\ Meet(resp)

PairCreate ==
    /\ phase = "Processing" /\ pc = "create"
    /\ \E resp \in Drawn(PairFailures \cup NotCreatedResponses(cur_title)
                          \cup CreateResponses(remote_books, cur_title),
                          FALSE) :
          CreateBook(resp) /\ Meet(resp)

PairAddToOwned ==
    /\ phase = "Processing" /\ pc = "mark" /\ hardcover_book_id # NoneValue
    /\ LET n == ParseInt(hardcover_book_id[1], Len(remote_books))
       IN  IF n = NoneValue
           THEN AddToOwned([kind |-> "other"]) /\ UNCHANGED pvars
           ELSE \E resp \in Drawn(PairFailures
                                  \cup {UnmarkedResponse, MarkedResponse(n[1])},
                                  FALSE) :
                    AddToOwned(resp) /\ Meet(resp)

\* the second run of the pair: a new job on the same books, the service put
\* back as the pair found it, the preference switched
PairRestart ==
    /\ phase = "Done" /\ run_no = 1
    /\ run_no' = 2
    /\ sync_owned_only' = ~sync_owned_only
    /\ first' = Some([first[1] EXCEPT !.log = req_log, !.results = results,
                                      !.owned_books = owned_books])
    /\ remote_books' = InitialRemoteBooks
    /\ remote_owned' = first[1].remote_owned
    /\ results' = NewResults
    /\ status_message' = "Starting sync..."
    /\ percent' = 0
    /\ phase' = "Idle"
    /\ owned_books' = <<>> /\ books_to_process' = <<>>
    /\ cmp_i' = 1 /\ proc_j' = 1 /\ pc' = "top"
    /\ cur_title' = <<>> /\ hardcover_book_id' = NoneValue
    /\ fetched' = <<>> /\ read_failed' = {} /\ req_log' = <<>>
    /\ counted' = [b \in DOMAIN Library |-> <<>>]
    /\ UNCHANGED <<book_ids, prev_added, outcomes, mvars, cvars, dvars>>

\* the user owns nothing on the service, or its first book
InitPair ==
    /\ book_ids \in BookIdLists
    /\ remote_books = InitialRemoteBooks
    /\ remote_owned \in {{}, {1}}
    /\ results = NewResults
    /\ status_message = "Starting sync..." /\ percent = 0 /\ phase = "Idle"
    /\ owned_books = <<>> /\ books_to_process = <<>>
    /\ cmp_i = 1 /\ proc_j = 1 /\ pc = "top"
    /\ cur_title = <<>> /\ hardcover_book_id = NoneValue /\ run_no = 1
    /\ fetched = <<>> /\ read_failed = {} /\ req_log = <<>>
    /\ counted = [b \in DOMAIN Library |-> <<>>]
    /\ prev_added = {}
    /\ m_title = <<>> /\ m_authors = <<>> /\ m_isbn = <<>> /\ m_owned = <<>>
    /\ m_called = FALSE /\ m_result = NoneValue
    /\ now = 0 /\ last_request = 0 /\ rate_limit_delay = DefaultRateLimitDelay
    /\ issued = <<>>
    /\ dialog = "asking" /\ cancel_pressed = FALSE /\ timer = FALSE
    /\ bar = 0 /\ label = <<>> /\ message = NoneValue /\ reads = {}
    /\ sync_owned_only \in BOOLEAN
    /\ outcomes = <<>>
    /\ first = Some([remote_owned |-> remote_owned, log |-> <<>>,
                     results |-> NewResults, owned_books |-> <<>>])

NextPair ==
    \/ StartRun
    \/ PairFetch
    \/ PairCompare
    \/ EndCompare
    \/ BeginBook
    \/ PairSearchIsbn
    \/ PairSearchTitle
    \/ PairCreate
    \/ PairAddToOwned
    \/ Finish
    \/ PairRestart

SpecPair == InitPair /\ [][NextPair]_vars

(***************************************************************************)
(* Claims about the matcher (checked under SpecMatcher)                    *)
(***************************************************************************)
\* the book's isbn with hyphens and spaces removed
C_CleanIsbn == RemoveChar(RemoveChar(m_isbn, "-"), " ")
\* the book's title lowercased and trimmed
C_CleanTitle == Strip(Lower(m_title))
C_IsbnIn(i) == C_CleanIsbn # <<>> /\ C_CleanIsbn \in m_owned[i].isbns
C_NoIsbnMatch == \A i \in 1..Len(m_owned) : C_CleanIsbn \notin m_owned[i].isbns
\* equal, or one contains the other
C_TitleOverlap(i) ==
    \/ C_CleanTitle = m_owned[i].title
    \/ Contains(m_owned[i].title, C_CleanTitle)
    \/ Contains(C_CleanTitle, m_owned[i].title)
C_AuthorPair(i) ==
    \E a \in 1..Len(m_authors) : \E b \in 1..Len(m_owned[i].authors) :
        LET ca == Strip(Lower(m_authors[a]))
            ha == Strip(Lower(m_owned[i].authors[b]))
        IN  Contains(ha, ca) \/ Contains(ca, ha)
C_AuthorsAllow(i) ==
    m_authors = <<>> \/ m_owned[i].authors = <<>> \/ C_AuthorPair(i)
\* the result is the first entry (in iteration order) satisfying Acc, or None
C_FirstAccepted(Acc(_)) ==
    IF \E i \in 1..Len(m_owned) : Acc(i)
    THEN \E i \in 1..Len(m_owned) :
            /\ Acc(i) /\ \A j \in 1..(i - 1) : ~Acc(j)
            /\ m_result = Some(m_owned[i].id)
    ELSE m_result = NoneValue

\* C1: if the book's cleaned isbn is non-empty and in some entry's isbn set,
\* the matcher returns the id of an entry whose isbn set contains it, whatever
\* the titles and authors and whatever the order of the entries.
C1_IsbnMatchReturnsIsbnEntry ==
    (m_called /\ \E i \in 1..Len(m_owned) : C_IsbnIn(i))
        => /\ m_result # NoneValue
           /\ \E i \in 1..Len(m_owned) :
                 m_owned[i].id = m_result[1] /\ C_IsbnIn(i)

\* C2: if the cleaned isbn is in no entry's isbn set and no entry's title
\* equals, contains or is contained in the book's cleaned title, the matcher
\* returns None.
C2_NoIsbnNoTitleNoMatch ==
    (m_called /\ C_NoIsbnMatch /\ \A i \in 1..Len(m_owned) : ~C_TitleOverlap(i))
        => m_result = NoneValue

C2_Witness ==
    /\ m_called /\ Len(m_owned) >= 2 /\ C_CleanIsbn # <<>>
    /\ \E i \in 1..Len(m_owned) : m_owned[i].isbns # {}
    /\ C_NoIsbnMatch /\ \A i \in 1..Len(m_owned) : ~C_TitleOverlap(i)
    /\ m_result = NoneValue

\* C3 (as stated): with no isbn match anywhere, an entry is accepted exactly
\* when its title equals, contains or is contained in the book's title and
\* either side has no authors or some pair of cleaned author names has one
\* containing the other; a rejected entry is passed over and the next one is
\* checked, so the result is the first accepted entry, or None.
C3_Accepted_AsStated(i) == C_TitleOverlap(i) /\ C_AuthorsAllow(i)
C3_TitleThenAuthors_AsStated ==
    (m_called /\ C_NoIsbnMatch) => C_FirstAccepted(C3_Accepted_AsStated)

\* C3 (amended): the same, where a title match also needs both cleaned titles
\* to be non-empty.
C3_Accepted(i) ==
    /\ C_CleanTitle # <<>> /\ m_owned[i].title # <<>>
    /\ C_TitleOverlap(i) /\ C_AuthorsAllow(i)
C3_TitleThenAuthors ==
    (m_called /\ C_NoIsbnMatch) => C_FirstAccepted(C3_Accepted)

\* a title-matching entry with non-overlapping authors is passed over and the
\* next entry, whose authors overlap, is returned
C3_Witness ==
    /\ m_called /\ C_NoIsbnMatch /\ Len(m_owned) >= 2
    /\ C_TitleOverlap(1) /\ m_owned[1].title # <<>> /\ ~C_AuthorsAllow(1)
    /\ C3_Accepted(2) /\ m_owned[2].authors # <<>> /\ m_authors # <<>>
    /\ m_result = Some(m_owned[2].id)

(***************************************************************************)
(* Claims about the client (checked under SpecClient)                      *)
(***************************************************************************)
\* C9: between any two consecutive requests of one instance at least
\* rate_limit_delay (the value given at construction) elapses, so N
\* consecutive calls take at least (N-1) x rate_limit_delay.
C9_SpacingIsRateLimitDelay ==
    /\ \A n \in 1..(Len(issued) - 1) :
          issued[n + 1].sent - issued[n].sent >= rate_limit_delay
    /\ issued # <<>> =>
          issued[Len(issued)].sent - issued[1].sent
              >= (Len(issued) - 1) * rate_limit_delay

\* C26: a request that follows a failed request of the same instance is sent
\* at least the minimum interval of _throttle after the failed one.
C26_SpacingAfterFailure ==
    \A n \in 1..(Len(issued) - 1) :
        issued[n].failed => issued[n + 1].sent - issued[n].sent >= min_delay

(***************************************************************************)
(* Claims about a run (checked under Spec, FairSpec, SpecRerun)            *)
(***************************************************************************)
C_Books == { book_ids[n] : n \in 1..Len(book_ids) }
C_Pos(b) == CHOOSE n \in 1..Len(book_ids) : book_ids[n] = b
C_LogOf(b) == SelectSeq(req_log, LAMBDA e : e.book = b)
C_Has(b, what) == \E n \in 1..Len(counted[b]) : counted[b][n] = what
C_Tally(what) == Cardinality({ b \in C_Books : C_Has(b, what) })
C_Outcomes(b) ==
    { n \in 1..Len(counted[b]) : counted[b][n] \in {"skipped", "added", "errors"} }

\* the outcome the book's own results determine: its metadata read, the
\* matcher on the fetched snapshot, and what its own requests returned
C4_Expected(b) ==
    IF b \in read_failed THEN <<"errors">>
    ELSE IF is_book_already_owned(Library[b].title, Library[b].authors,
                                  Library[b].isbn, fetched) # NoneValue
    THEN <<"skipped">>
    ELSE LET own == C_LogOf(b)
             last == own[Len(own)]
             created == \E n \in 1..Len(own) :
                           own[n].op = "create" /\ own[n].ret # NoneValue
         IN  IF own = <<>> THEN <<"not processed">>
             ELSE IF last.op = "mark"
             THEN (IF created THEN <<"created">> ELSE <<>>)
                    \o (IF last.ret = <<"True">> THEN <<"added">> ELSE <<"errors">>)
             ELSE IF last.op = "create" /\ last.ret = NoneValue THEN <<"errors">>
             ELSE <<"not processed">>

\* C4: a failure of one book does not stop the batch: at the end every book
\* of the list has been compared and, unless skipped, processed, in the order
\* of the list, and is counted as its own results determine.
C4_PerBookIsolation ==
    phase = "Done" =>
        /\ \A b \in C_Books : counted[b] = C4_Expected(b)
        /\ \A p, q \in 1..Len(req_log) :
              (p < q /\ req_log[p].book # 0) =>
                  C_Pos(req_log[p].book) <= C_Pos(req_log[q].book)

\* the first book failed (its metadata could not be read, or its creation or
\* markOwned failed) and the next one was still added
C4_Witness ==
    /\ phase = "Done" /\ Len(book_ids) >= 2
    /\ counted[book_ids[1]] = <<"errors">>
    /\ C_Has(book_ids[2], "added")
    /\ \E p \in 1..Len(req_log) : req_log[p].book = book_ids[2] /\ req_log[p].failed

\* C5: whatever the requests and metadata reads do, the run ends in Done with
\* percent = 100 and status 'Sync completed!', and never in Failed.
C5_RunEndsDone ==
    /\ <>[](phase = "Done" /\ percent = 100 /\ status_message = "Sync completed!")
    /\ [](phase # "Failed")

\* a run whose snapshot fetch failed and one of whose later requests failed,
\* ended in Done
C5_Witness ==
    /\ phase = "Done" /\ percent = 100 /\ status_message = "Sync completed!"
    /\ req_log[1].op = "fetch" /\ req_log[1].failed
    /\ \E p \in 2..Len(req_log) : req_log[p].failed
    /\ \E p \in 2..Len(req_log) : req_log[p].ret = <<"raised">>

\* the books decided so far: compared and not queued, or queued and processed
C6_Handled == (cmp_i - 1) - Len(books_to_process) + (proc_j - 1)

\* C6: no book is counted in more than one of skipped, added and errors; the
\* sum of the three is at most the number of books handled so far and, at
\* Done, the number of book ids of the run.
C6_CountedOnce ==
    /\ \A b \in C_Books : Cardinality(C_Outcomes(b)) <= 1
    /\ results.skipped_already_owned = C_Tally("skipped")
    /\ results.added_to_owned = C_Tally("added")
    /\ results.errors = C_Tally("errors")
    /\ results.skipped_already_owned + results.added_to_owned + results.errors
          <= C6_Handled
    /\ phase = "Done" =>
          results.skipped_already_owned + results.added_to_owned + results.errors
              = Len(book_ids)

C6_Witness ==
    /\ phase = "Done" /\ Len(book_ids) >= 2
    /\ results.created_new_books >= 1 /\ results.errors >= 1
    /\ results.added_to_owned + results.skipped_already_owned >= 1

\* the entry the snapshot holds for book a after its markOwned succeeded
C7_EntryOf(a) ==
    { n \in 1..Len(owned_books) :
        owned_books[n] = SynthesizedEntry(owned_books[n].id,
                                          [title |-> Library[a].title,
                                           authors |-> Library[a].authors,
                                           isbn |-> Library[a].isbn]) }

\* C7: once a book has been added and the snapshot holds its synthesized
\* entry, a later book of the run that matches this entry is recognized as
\* owned: no search, createBook or markOwned is made for it and it is not
\* counted as added.
C7_LaterMatchIsSkipped ==
    \A p, q \in 1..Len(req_log) :
        (/\ p < q
         /\ req_log[p].op = "mark" /\ req_log[p].ret = <<"True">>
         /\ req_log[q].book # req_log[p].book
         /\ \E n \in C7_EntryOf(req_log[p].book) :
               is_book_already_owned(Library[req_log[q].book].title,
                                     Library[req_log[q].book].authors,
                                     Library[req_log[q].book].isbn,
                                     << owned_books[n] >>) # NoneValue)
        => FALSE

\* C8: every book a first run counted as added is counted as skipped by a
\* second, undisturbed run on the same books, which makes no request for it.
C8_SecondRunSkipsAdded ==
    (run_no = 2 /\ phase = "Done") =>
        \A b \in prev_added : counted[b] = <<"skipped">> /\ C_LogOf(b) = <<>>

\* C10: a search whose request failed, or found nothing, returns the empty
\* sequence without raising, and the book goes on to its next step: the title
\* search after the isbn search, the creation after the title search.
C10_FailedSearchIsEmpty ==
    /\ phase # "Failed"
    /\ \A p \in 1..Len(req_log) :
          LET e == req_log[p]
              then == IF e.op = "search_isbn" THEN "search_title" ELSE "create"
          IN  (e.op \in {"search_isbn", "search_title"}
               /\ (e.failed \/ e.ret = <<>>))
              => /\ e.ret = <<>>
                 /\ IF p < Len(req_log)
                    THEN req_log[p + 1].op = then /\ req_log[p + 1].book = e.book
                    ELSE phase = "Processing" /\ pc = then
                         /\ Book.calibre_id = e.book

\* an isbn search that failed was followed by the title search, which failed
\* and was followed by the creation
C10_Witness ==
    \E p \in 1..(Len(req_log) - 2) :
        /\ req_log[p].op = "search_isbn" /\ req_log[p].failed
        /\ req_log[p + 1].op = "search_title" /\ req_log[p + 1].failed
        /\ req_log[p + 2].op = "create" /\ req_log[p + 2].book = req_log[p].book

\* C11: create_book_on_hardcover never raises; it returns None whenever the
\* request failed or the response carries no created book with an id, and
\* otherwise the carried id as a string.
C11_CreateReturnsIdOrNone ==
    \A p \in 1..Len(req_log) :
        req_log[p].op = "create" =>
            /\ req_log[p].ret # <<"raised">>
            /\ req_log[p].ret =
                  (IF req_log[p].failed \/ req_log[p].carried = NoneValue
                   THEN NoneValue
                   ELSE Some(ToString(req_log[p].carried[1])))

\* one creation came back without a created book (the request failed, or the
\* answer carried none), another was answered with the created book
C11_Witness ==
    /\ \E p \in 1..Len(req_log) :
          /\ req_log[p].op = "create" /\ req_log[p].ret = NoneValue
          /\ (req_log[p].failed \/ req_log[p].carried = NoneValue)
    /\ \E p \in 1..Len(req_log) :
          /\ req_log[p].op = "create" /\ ~req_log[p].failed
          /\ req_log[p].carried # NoneValue /\ req_log[p].ret # NoneValue

\* C12: when the request of the snapshot fetch fails, the run records the
\* failure as an entry of error_details and goes on with an empty snapshot.
C12_FetchFailureIsLogged ==
    (req_log # <<>> /\ req_log[1].op = "fetch" /\ req_log[1].failed)
        => /\ fetched = <<>>
           /\ \E n \in 1..Len(results.error_details) :
                 results.error_details[n][1] = "Failed to get owned books: "
\* the four kinds of failure: authentication, transport, service-reported
\* error, remote rate limit
C13_FourKinds ==
    { [kind |-> "http", code |-> 401], [kind |-> "url"],
      [kind |-> "ok", body |-> [errors |-> << [message |-> "denied"] >>]],
      [kind |-> "http", code |-> 429] }

\* what SyncJob.run gets back from the request it is about to make, should
\* the request be answered with resp
C13_Observed(resp) ==
    IF phase = "FetchingSnapshot" THEN get_owned_books_with_titles(resp)
    ELSE IF phase = "Processing" /\ pc = "search_isbn"
    THEN search_books_by_isbn(Book.isbn, resp)
    ELSE IF phase = "Processing" /\ pc = "search_title"
    THEN search_books_by_title(cur_title, resp)
    ELSE IF phase = "Processing" /\ pc = "create"
    THEN create_book_on_hardcover(cur_title, Book.authors, Library[Book.calibre_id], resp)
    ELSE IF phase = "Processing" /\ pc = "mark" /\ hardcover_book_id # NoneValue
    THEN add_book_to_owned(hardcover_book_id[1], resp, Len(remote_books))
    ELSE run_query(resp)

\* C13: the four kinds of failure give four distinct outcomes of run_query,
\* and whenever SyncJob.run makes a request, what it gets back for two
\* different kinds differs, so that it can tell which kind occurred.
C13_KindsObservable ==
    \A r1, r2 \in C13_FourKinds :
        r1 # r2 => /\ run_query(r1) # run_query(r2)
                   /\ C13_Observed(r1) # C13_Observed(r2)
\* C14 (as stated): percent never decreases, is within 0..20 during
\* Comparing and within 20..99 during Processing, and is 100 exactly when the
\* run is Done.
C14_Ranges_AsStated ==
    /\ phase = "Comparing" => percent \in 0..20
    /\ phase = "Processing" => percent \in 20..99
    /\ percent = 100 <=> phase = "Done"
C14_Progress_AsStated ==
    [][percent' >= percent]_vars /\ [](C14_Ranges_AsStated)

\* C14 (amended): percent never decreases, is within 0..20 during Comparing,
\* within 0..99 during Processing and within 20..99 once the first queued book
\* has been begun, and is 100 exactly when the run is Done, all books having
\* been compared and all queued books handled.
C14_Ranges ==
    /\ phase = "Comparing" => percent \in 0..20
    /\ phase = "Processing" =>
          /\ percent \in 0..99
          /\ (proc_j > 1 \/ pc # "top") => percent \in 20..99
    /\ percent = 100 <=> phase = "Done"
    /\ phase = "Done" =>
          cmp_i > Len(book_ids) /\ proc_j > Len(books_to_process)
C14_Progress ==
    [][percent' >= percent]_vars /\ [](C14_Ranges)

\* the second of two queued books is being processed, at 60 percent
C14_Witness ==
    /\ phase = "Processing" /\ Len(books_to_process) = 2
    /\ proc_j = 2 /\ pc # "top" /\ percent = 60
\* an entry of error_details that is about one book
C17_PerBook(e) == e[1] \notin {"Failed to get owned books: ", "Sync job failed: "}
\* the entry names the book being compared (by its id) or processed (by its
\* title)
C17_Names(e) ==
    \/ phase = "Comparing" /\ e[2] = book_ids[cmp_i]
    \/ phase = "Processing" /\ e[2] = Book.title
C17_Step ==
    LET d == results.error_details
        e == results'.error_details
    IN  /\ results'.errors \in {results.errors, results.errors + 1}
        /\ results'.errors = results.errors + 1 =>
              /\ Len(e) = Len(d) + 1 /\ SubSeq(e, 1, Len(d)) = d
              /\ C17_PerBook(e[Len(e)]) /\ C17_Names(e[Len(e)])
        /\ results'.errors = results.errors =>
              SelectSeq(e, C17_PerBook) = SelectSeq(d, C17_PerBook)
        /\ (phase = "Processing" /\ pc = "create" /\ pc' = "top") =>
              /\ results'.errors = results.errors + 1
              /\ e = Append(d, <<"Failed to create book: ", Book.title>>)
              /\ phase' = "Processing" /\ proc_j' = proc_j + 1

\* C17: every increment of errors comes with exactly one entry appended to
\* error_details that names the book at hand, and no such entry is appended
\* otherwise, so the per-book entries number errors; a creation that fails
\* adds 1 to errors and one entry holding the book's title, and the run goes
\* on with the next book.
C17_ErrorsPairedWithDetails ==
    /\ [][C17_Step]_vars
    /\ [](Len(SelectSeq(results.error_details, C17_PerBook)) = results.errors)

\* the searches of a book found nothing, its creation failed, that is the one
\* error of the run, and another book was processed after it
C17_Witness ==
    /\ phase = "Done" /\ results.errors = 1 /\ Len(results.error_details) = 1
    /\ results.error_details[1][1] = "Failed to create book: "
    /\ \E p \in 1..(Len(req_log) - 2) :
          /\ req_log[p].op = "search_title" /\ ~req_log[p].failed
          /\ req_log[p].ret = <<>>
          /\ req_log[p + 1].op = "create" /\ req_log[p + 1].ret = NoneValue
          /\ req_log[p + 2].book # req_log[p].book
\* C18: every isbn in the isbn set of a snapshot entry, fetched or
\* synthesized, holds no hyphen and no space.
C18_SnapshotIsbnsNormalized ==
    \A n \in 1..Len(owned_books) :
        \A x \in owned_books[n].isbns : CleanIsbn(x) = x
\* the requests made for book b, in order
C20_Ops(b) == [n \in 1..Len(C_LogOf(b)) |-> C_LogOf(b)[n].op]
C20_Order(b) ==
    LET own == C_LogOf(b)
        has_isbn == Library[b].isbn # <<>>
    IN  /\ \A n \in 1..Len(own) :
              /\ own[n].op = "search_isbn" => n = 1 /\ has_isbn
              /\ own[n].op = "search_title" =>
                    \/ n = 1 /\ ~has_isbn
                    \/ n = 2 /\ own[1].op = "search_isbn" /\ own[1].ret = <<>>
              /\ own[n].op = "create" =>
                    /\ n > 1 /\ own[n - 1].op = "search_title"
                    /\ \A k \in 1..(n - 1) : own[k].ret = <<>>
              /\ (own[n].op \in {"search_isbn", "search_title"} /\ own[n].ret # <<>>) =>
                    /\ \A k \in 1..Len(own) : own[k].op # "create"
                    /\ IF n < Len(own) THEN own[n + 1].op = "mark"
                       ELSE /\ phase = "Processing" /\ pc = "mark"
                            /\ Book.calibre_id = b
                            /\ hardcover_book_id = Some(own[n].ret[1])
        /\ own # <<>> => own[1].op = (IF has_isbn THEN "search_isbn" ELSE "search_title")
        /\ (Len(own) > 1 /\ own[1].op = "search_isbn") =>
              own[2].op = (IF own[1].ret = <<>> THEN "search_title" ELSE "mark")

\* C20: for each queued book the requests come in the order isbn search,
\* title search, createBook: the isbn search only for a book with an isbn, the
\* title search exactly when there is no isbn or the isbn search returned
\* nothing, createBook only after every search made returned nothing; when a
\* search returns rows, the id of the first is the one marked and no
\* createBook is made.
C20_SearchOrder == \A b \in C_Books : C20_Order(b)

\* one book went through isbn search, title search, creation and markOwned,
\* another was found by its title search and marked
C20_Witness ==
    /\ phase = "Done"
    /\ \E b \in C_Books :
          C20_Ops(b) = <<"search_isbn", "search_title", "create", "mark">>
    /\ \E b \in C_Books :
          /\ C20_Ops(b) = <<"search_title", "mark">>
          /\ C_LogOf(b)[1].ret # <<>>
\* C15: what the dialog has read of the job while the job's thread was still
\* running is percent and status_message only; results is read, and the
\* summary shown, only when the run is over; from Done on, no field of results
\* changes.
C15_ResultsReadAfterCompletion ==
    /\ [](\A r \in reads : r.running => r.field \in {"percent", "status_message"})
    /\ [](\A r \in reads : r.field = "results" => ~r.running)
    /\ [](message # NoneValue => phase \in {"Done", "Failed"})
    /\ [][phase = "Done" => (results' = results /\ phase' = "Done")]_vars

\* the dialog polled a running job, then read the results of the finished one
\* and showed the summary of a run that counted something
C15_Witness ==
    /\ phase = "Done" /\ message # NoneValue
    /\ [field |-> "percent", running |-> TRUE] \in reads
    /\ [field |-> "results", running |-> FALSE] \in reads
    /\ results.errors + results.added_to_owned + results.skipped_already_owned > 0

\* C16: pressing Cancel leaves the job, the service and the run's record as
\* they are, and a started run, polled or not, cancelled or not, goes on to
\* Done with every book of the run counted.
C16_NoCancellation ==
    /\ [][cancel_pressed' # cancel_pressed => UNCHANGED <<jvars, svars, hvars>>]_vars
    /\ (phase = "Idle") ~>
           (/\ phase = "Done"
            /\ \A b \in C_Books : Cardinality(C_Outcomes(b)) = 1)

\* Cancel was pressed on a started run that was never polled, and the job is
\* at work on a queued book
C16_Witness ==
    /\ cancel_pressed /\ dialog = "closed" /\ reads = {}
    /\ phase = "Processing" /\ pc # "top"

C19_Lines == message[1]
C19_Details == results.error_details
C19_Shown == IF Len(C19_Details) < 3 THEN Len(C19_Details) ELSE 3

\* C19: the summary shown gives the count of every outcome category; after
\* them, for n recorded error details, it lists the first min(3, n) of them in
\* their recorded order and nothing else of them, and it ends with the number
\* n - 3 of omitted errors exactly when n > 3.
C19_SummaryPreview ==
    message # NoneValue =>
        /\ C19_Lines[2] = <<"Your Calibre Library: ", Len(book_ids), " books">>
        /\ C19_Lines[3] = <<"Already Owned on Hardcover: ",
                            results.existing_owned_count, " books">>
        /\ C19_Lines[4] = <<"Added to Owned: ", results.added_to_owned>>
        /\ C19_Lines[5] = <<"Skipped (already owned): ", results.skipped_already_owned>>
        /\ C19_Lines[6] = <<"New Books Created: ", results.created_new_books>>
        /\ C19_Lines[7] = <<"Errors: ", results.errors>>
        /\ \A k \in 1..C19_Shown : C19_Lines[8 + k] = C19_Details[k]
        /\ { p \in 8..Len(C19_Lines) : \E k \in 1..Len(C19_Details) :
                                           C19_Lines[p] = C19_Details[k] }
               = { 8 + k : k \in 1..C19_Shown }
        /\ IF Len(C19_Details) > 3
           THEN /\ Len(C19_Lines) = 12
                /\ C19_Lines[12] = <<"... and ", Len(C19_Details) - 3, " more">>
           ELSE /\ Len(C19_Lines) = (IF C19_Details = <<>> THEN 7 ELSE 8 + C19_Shown)
                /\ \A p \in 1..Len(C19_Lines) : C19_Lines[p][1] # "... and "

\* the summary of a run every book of which ended in an error, of both loops
C19_Witness ==
    /\ message # NoneValue
    /\ Len(C19_Details) = MaxDetails
    /\ C19_Details[1][1] = "Failed to read book "
    /\ C19_Details[MaxDetails][1] = "Failed to create book: "
    /\ C19_Lines[12] = <<"... and ", MaxDetails - 3, " more">>

C21_Last == req_log[Len(req_log)]
C21_Marks(b) == { p \in 1..Len(req_log) : req_log[p].op = "mark" /\ req_log[p].book = b }

\* C21: add_book_to_owned is called for a book only from the point where the
\* book's last request was a search whose first row gave the id at hand or a
\* creation that returned the id at hand; no book has more than one such
\* call, and none after a creation of its own that returned no id.
C21_MarkOnlyResolved ==
    /\ [](phase = "Processing" /\ pc = "mark" =>
            /\ req_log # <<>>
            /\ C21_Last.book = Book.calibre_id
            /\ C21_Last.ret # <<"raised">> /\ C21_Last.ret # <<>>
            /\ \/ /\ C21_Last.op \in {"search_isbn", "search_title"}
                  /\ hardcover_book_id = Some(C21_Last.ret[1])
               \/ /\ C21_Last.op = "create"
                  /\ hardcover_book_id = C21_Last.ret)
    /\ [][(Len(req_log') > Len(req_log) /\ req_log'[Len(req_log')].op = "mark") =>
            (/\ phase = "Processing" /\ pc = "mark"
             /\ req_log'[Len(req_log')].book = Book.calibre_id)]_vars
    /\ [](\A b \in C_Books : Cardinality(C21_Marks(b)) <= 1)
    /\ [](\A p \in 1..Len(req_log) :
            (req_log[p].op = "create" /\ req_log[p].ret \in {<<>>, <<"raised">>}) =>
                \A q \in C21_Marks(req_log[p].book) : q < p)

\* one book was marked after a search that found two rows, another was not
\* created and never marked
C21_Witness ==
    /\ phase = "Done"
    /\ \E p \in 2..Len(req_log) :
          /\ req_log[p].op = "mark"
          /\ req_log[p - 1].op = "search_title" /\ Len(req_log[p - 1].ret) = 2
          /\ req_log[p - 1].ret[1] # req_log[p - 1].ret[2]
    /\ \E p \in 1..Len(req_log) :
          /\ req_log[p].op = "create" /\ req_log[p].ret = <<>>
          /\ C21_Marks(req_log[p].book) = {}

C22_Searched(b) ==
    /\ Library[b].isbn # <<>> =>
          \E p \in 1..Len(req_log) :
              req_log[p].book = b /\ req_log[p].op = "search_isbn" /\ req_log[p].ret = <<>>
    /\ \E p \in 1..Len(req_log) :
          req_log[p].book = b /\ req_log[p].op = "search_title" /\ req_log[p].ret = <<>>
    /\ \A p \in 1..Len(req_log) :
          (req_log[p].book = b /\ req_log[p].op \in {"search_isbn", "search_title"})
              => req_log[p].ret = <<>>
C22_Awaiting ==
    IF phase = "Processing" /\ pc = "mark" /\ C_Has(Book.calibre_id, "created")
    THEN 1 ELSE 0
C22_Counters ==
    /\ \A b \in C_Books :
          C_Has(b, "created") =>
              /\ C22_Searched(b)
              /\ (phase = "Processing" /\ pc = "mark" /\ Book.calibre_id = b)
                    \/ (C_Has(b, "added") # C_Has(b, "errors"))
    /\ \A b \in C_Books :
          (\E p \in 1..Len(req_log) :
               /\ req_log[p].book = b
               /\ req_log[p].op \in {"search_isbn", "search_title"}
               /\ req_log[p].ret # <<>>)
             => ~C_Has(b, "created")
    /\ results.created_new_books = C_Tally("created")
C22_Step ==
    /\ results'.created_new_books # results.created_new_books =>
          /\ results'.created_new_books = results.created_new_books + 1
          /\ phase = "Processing" /\ pc = "create"
          /\ Len(req_log') = Len(req_log) + 1
          /\ req_log'[Len(req_log')].op = "create"
          /\ req_log'[Len(req_log')].ret \notin {<<>>, <<"raised">>}
          /\ results'.errors = results.errors
          /\ results'.added_to_owned = results.added_to_owned
    /\ (/\ Len(req_log') > Len(req_log)
        /\ req_log'[Len(req_log')].op = "create") =>
          IF req_log'[Len(req_log')].ret \in {<<>>, <<"raised">>}
          THEN /\ results'.errors = results.errors + 1
               /\ results'.created_new_books = results.created_new_books
               /\ results'.added_to_owned = results.added_to_owned
          ELSE results'.created_new_books = results.created_new_books + 1
    /\ (/\ Len(req_log') > Len(req_log)
        /\ req_log'[Len(req_log')].op = "mark"
        /\ req_log'[Len(req_log')].ret = <<"True">>
        /\ ~C_Has(Book.calibre_id, "created")) =>
          /\ results'.created_new_books = results.created_new_books
          /\ results'.added_to_owned = results.added_to_owned + 1

\* C22 as stated, its last clause: created <= added + errors in every
\* reachable state.
C22_CreatedBounded_AsStated ==
    results.created_new_books <= results.added_to_owned + results.errors

\* C22: created is incremented, by one, exactly by a creation that returned
\* an id, for a book all of whose searches returned nothing; a creation that
\* returned none increments errors only; a book whose search found a row is
\* never counted created, and its successful markOwned adds one to added only;
\* a book counted created is counted in exactly one of added and errors once
\* its markOwned is over; created <= added + errors, plus one while a created
\* book awaits the outcome of its markOwned.
C22_Created ==
    /\ []C22_Counters
    /\ [][C22_Step]_vars
    /\ [](results.created_new_books
            <= results.added_to_owned + results.errors + C22_Awaiting)

\* a run created one book and added it, created another and failed to mark
\* it; or created one, and did not create another
C22_Witness ==
    /\ phase = "Done"
    /\ \E b \in C_Books : C_Has(b, "created") /\ C_Has(b, "added")
    /\ \E b \in C_Books :
          \/ C_Has(b, "created") /\ C_Has(b, "errors")
          \/ \E p \in 1..Len(req_log) :
                req_log[p].book = b /\ req_log[p].op = "create" /\ req_log[p].ret = <<>>

C23_Keys(items) == { items[n].id : n \in 1..Len(items) }
C23_MarkedNow ==
    /\ Len(req_log') > Len(req_log)
    /\ req_log'[Len(req_log')].op = "mark"
    /\ req_log'[Len(req_log')].ret = <<"True">>
C23_Step ==
    phase = "Processing" =>
        IF C23_MarkedNow
        THEN /\ hardcover_book_id[1] \in C23_Keys(owned_books')
             /\ C23_Keys(owned_books') = C23_Keys(owned_books) \cup {hardcover_book_id[1]}
             /\ \A n \in 1..Len(owned_books) :
                   owned_books[n].id # hardcover_book_id[1] =>
                       \E m \in 1..Len(owned_books') : owned_books'[m] = owned_books[n]
        ELSE owned_books' = owned_books

\* C23: a successful markOwned of id r leaves in the snapshot an entry keyed
\* r, the other entries as they were, and r stays a key until the run ends;
\* no two entries of the snapshot share a key; every other step of the
\* processing of a book leaves the snapshot as it is; existing_owned_count is
\* the size of the snapshot as fetched.
C23_SnapshotUpdate ==
    /\ [][C23_Step]_vars
    /\ [](\A p \in 2..Len(req_log) :
            (req_log[p].op = "mark" /\ req_log[p].ret = <<"True">>) =>
                req_log[p - 1].ret[1] \in C23_Keys(owned_books))
    /\ [](\A m, n \in 1..Len(owned_books) :
            m # n => owned_books[m].id # owned_books[n].id)
    /\ [](phase \in {"Comparing", "Processing", "Done"} =>
            results.existing_owned_count = Len(fetched))

\* a run marked a book that the fetched snapshot held already, marked a book
\* it did not hold, or failed to mark one, over a snapshot of one entry
C23_Witness ==
    /\ phase = "Done" /\ Len(fetched) = 1 /\ results.existing_owned_count = 1
    /\ \E p \in 2..Len(req_log) :
          /\ req_log[p].op = "mark" /\ req_log[p].ret = <<"True">>
          /\ req_log[p - 1].ret[1] \in C23_Keys(fetched)
    /\ \E p \in 2..Len(req_log) :
          /\ req_log[p].op = "mark"
          /\ \/ req_log[p].ret = <<"False">>
             \/ req_log[p].ret = <<"True">> /\ req_log[p - 1].ret[1] \notin C23_Keys(fetched)

C24_Queued == { books_to_process[n].calibre_id : n \in 1..Len(books_to_process) }
C24_Compared == { book_ids[n] : n \in 1..(cmp_i - 1) }
C24_Matched(b) ==
    /\ b \notin read_failed
    /\ is_book_already_owned(IF Library[b].title # <<>> THEN Library[b].title
                              ELSE <<"Unknown Title">>,
                              Library[b].authors, Library[b].isbn, fetched) # NoneValue

\* C24: a compared book that the matcher found in the snapshot is counted
\* skipped and nothing else, is not in the queue, and no request of the run
\* is made for it; a book whose metadata could not be read is counted in
\* errors and nothing else, is not in the queue, and no request is made for
\* it.
C24_MatchedIsLeftAlone ==
    phase \in {"Comparing", "Processing", "Done"} =>
        /\ \A b \in C24_Compared :
              C24_Matched(b) =>
                  /\ counted[b] = <<"skipped">>
                  /\ b \notin C24_Queued
                  /\ C_LogOf(b) = <<>>
        /\ \A b \in C24_Compared :
              b \in read_failed =>
                  /\ counted[b] = <<"errors">>
                  /\ b \notin C24_Queued
                  /\ C_LogOf(b) = <<>>
        /\ \A b \in C_Books : C_Has(b, "skipped") => b \in C24_Compared /\ C24_Matched(b)
        /\ results.skipped_already_owned = C_Tally("skipped")

\* a finished run of two books, one matched and one unreadable, that made no
\* request but the fetch
C24_Witness ==
    /\ phase = "Done" /\ Len(req_log) = 1
    /\ \E b \in C_Books : C24_Matched(b) /\ counted[b] = <<"skipped">>
    /\ \E b \in C_Books : b \in read_failed /\ counted[b] = <<"errors">>
    /\ results.skipped_already_owned = 1 /\ results.errors = 1

C25_QueuePos(b) == CHOOSE n \in 1..Len(books_to_process) : books_to_process[n].calibre_id = b
C25_PhaseOrder ==
    phase' # phase =>
        <<phase, phase'>> \in { <<"Idle", "FetchingSnapshot">>,
                                <<"FetchingSnapshot", "Comparing">>,
                                <<"Comparing", "Processing">>,
                                <<"Processing", "Done">> }
C25_Step ==
    /\ C25_PhaseOrder
    /\ Len(req_log') \in {Len(req_log), Len(req_log) + 1}
    /\ Len(req_log') > Len(req_log) =>
          IF req_log = <<>>
          THEN phase = "FetchingSnapshot" /\ req_log'[1].op = "fetch"
          ELSE /\ req_log'[Len(req_log')].op # "fetch"
               /\ phase = "Processing" /\ cmp_i = Len(book_ids) + 1
               /\ req_log'[Len(req_log')].book = books_to_process[proc_j].calibre_id
    /\ (phase = "Comparing" /\ cmp_i' # cmp_i) =>
          /\ cmp_i' = cmp_i + 1
          /\ \/ books_to_process' = books_to_process
             \/ /\ Len(books_to_process') = Len(books_to_process) + 1
                /\ SubSeq(books_to_process', 1, Len(books_to_process)) = books_to_process
                /\ books_to_process'[Len(books_to_process')].calibre_id = book_ids[cmp_i]
    /\ (phase = "Processing" /\ proc_j' # proc_j) => proc_j' = proc_j + 1
    /\ phase = "Processing" => books_to_process' = books_to_process

\* C25: the phase of a run changes only from Idle to FetchingSnapshot, to
\* Comparing, to Processing, to Done; the fetch is the first request and the
\* only fetch; every other request is made in Processing, after the last book
\* was compared; the books are compared one by one in the order of book_ids
\* and queued in that order; the requests come one at a time, those of a
\* queued book after those of the books queued before it.
C25_FixedOrder ==
    /\ [][C25_Step]_vars
    /\ [](\A p \in 1..Len(req_log) : (req_log[p].op = "fetch") = (p = 1))
    /\ [](phase \in {"Comparing", "Processing", "Done"} => Len(req_log) >= 1)
    /\ [](\A m, n \in 1..Len(books_to_process) :
            m < n => C_Pos(books_to_process[m].calibre_id)
                       < C_Pos(books_to_process[n].calibre_id))
    /\ [](\A p, q \in 2..Len(req_log) :
            p < q => C25_QueuePos(req_log[p].book) <= C25_QueuePos(req_log[q].book))

\* a finished run that queued two books and made requests for both
C25_Witness ==
    /\ phase = "Done" /\ Len(books_to_process) = 2
    /\ \E p, q \in 2..Len(req_log) :
          /\ p < q
          /\ req_log[p].book = books_to_process[1].calibre_id
          /\ req_log[q].book = books_to_process[2].calibre_id

\* C27: every call of add_book_to_owned returns True or False; none raises,
\* whatever the id string it is given.
C27_MarkReturnsBoolean ==
    \A p \in 1..Len(req_log) :
        req_log[p].op = "mark" => req_log[p].ret \in {<<"True">>, <<"False">>}

C29_Finished == message # NoneValue
C29_JobOver == phase \in {"Done", "Failed"}

\* C29: from the start of a job on, either one call of check_progress is
\* pending or sync_finished has been called, never both and never neither;
\* sync_finished is called at a poll that finds the job over, it is not
\* called again, and the chain of polls ends with it only; every started job
\* gets its call of sync_finished.
C29_FinishedOnce ==
    /\ [](IF phase = "Unused" THEN ~timer /\ ~C29_Finished
                              ELSE timer # C29_Finished)
    /\ [][message' # message =>
            (~C29_Finished /\ timer /\ C29_JobOver /\ ~timer')]_vars
    /\ [][(timer /\ ~timer') => (C29_JobOver /\ ~C29_Finished /\ message' # NoneValue)]_vars
    /\ [][(timer /\ ~C29_JobOver /\ ~C29_JobOver') => timer']_vars
    /\ (phase = "Idle") ~> C29_Finished

\* a job that was over before the first poll: sync_finished was called, the
\* dialog never read percent
C29_Witness ==
    /\ C29_Finished /\ ~timer /\ phase = "Done"
    /\ reads = {[field |-> "results", running |-> FALSE]}
    /\ results.added_to_owned > 0

====
